---- MODULE Spec2Model ----
(***************************************************************************)
(* State-machine model of the SSE fan-out gateway (hui0202/sse-gateway).   *)
(*                                                                         *)
(*  - the connection registry (ConnectionManager) of the library crate     *)
(*    crates/sse-gateway and of the binary src/src/sse,                    *)
(*  - the per-request SSE stream of sse_connect with its CleanupStream,    *)
(*  - the ingestion Dispatcher (one spawned task per incoming message),    *)
(*  - the replay store with explicit stream ids (RedisStorage).            *)
(*                                                                         *)
(* Every DashMap operation is one atomic step; a method that performs      *)
(* several of them (register, unregister) is several steps.  An event is   *)
(* identified by its number n; call[n] is the call that carries it.        *)
(***************************************************************************)
EXTENDS Integers, Sequences, FiniteSets, TLC

\* ---------------------------------------------------------------- bounds
MaxConns == 2
MaxEvents == 2
NTasks == 1
MaxPerChannel == 2
MaxOtherCalls == 2
MaxSent == 3
MaxSenders == 2
SmallBatch == 2
SmallCapacity == 1
QueueCap == 1
MaxClock == 2
MaxBeats == 1

\* ------------------------------------------------------ program constants
MaxMessagesPerChannel == 100
BatchSize == 100
StoreChannelCapacity == 10000
HeartbeatChannelCapacity == 16
SourceChannelCapacity == 1000

Conns == 1..MaxConns
Events == 1..MaxEvents
Tasks == 1..NTasks
Channels == {"a", "b"}
NoChan == "none"
\* gateway instances: the one modelled in full, and another one
ThisInstance == "A"
OtherInstance == "B"
NoInstance == "none"
\* the remote keys: channel:{ch}:instance per channel, and this instance's
\* gateway:instance:{id}
InstanceKey == "instance"
Keys == Channels \cup {InstanceKey}
\* A stream id or cursor string is held as the parts `split('-')` yields: a
\* part that parses as u64 is its value, any other part is NotNumeric.
\* format!("{}-{}", ts, seq) is <<ts, seq>>; no id at all (None) is <<>>.
NoId == <<>>
Payloads == {"x", "y"}
\* the tasks with_options and Gateway::run have spawned, the token not
\* cancelled; submitted is history: in how many pipelines sent to the server
\* the request of event n has been; shard: the shard of the connections map
\* the key of connection c hashes to (here every key in a shard of its own)
Spawned ==
    [batcher |-> "running", ticker |-> "running", sweeper |-> "running",
     cancel |-> FALSE, store_open |-> TRUE,
     submitted |-> [n \in Events |-> 0],
     shard |-> [c \in Conns |-> c]]
\* ChannelSource::new: the receiver not yet taken, one sender, nothing sent
NewSource ==
    [pc |-> "new", inbox |-> <<>>, senders |-> 1, cancelled |-> FALSE,
     sent |-> <<>>, handled |-> <<>>, result |-> "none"]
NotNumeric == 0 - 1
\* an id no connection has
NoConn == MaxConns + 1

VARIABLES
    connections,    \* keys of ConnectionManager.connections
    channel_id,     \* SseConnection.channel_id of each connection
    channel_index,  \* ConnectionManager.channel_index: channel -> list of ids
    queue,          \* buffer of the connection's mpsc channel
    receiver,       \* "none" | "held" | "dropped": the mpsc Receiver
    enq,            \* history: every event enqueued to the connection, in order
    pc,             \* position of the sse_connect request / its stream
    last_event_id,  \* the request's last-event-id header
    replay,         \* what get_messages_after returned to the request
    replay_pos,     \* how many replay events the stream has emitted
    out,            \* what the stream has emitted, in order
    hbq,            \* pending ticks of the stream's heartbeat subscription
    cleanup,        \* CleanupStream.cleanup is Some
    hooks,          \* invocations of cleanup, on_connect, on_disconnect
    sweep,          \* the dead-connection sweeper task
    call,           \* the call carrying event n
    next_event,     \* number of the next event
    clock,          \* wall clock, milliseconds
    counter,        \* RedisStorage.counter
    store_tx,       \* RedisStorage.store_tx: requests waiting for the batcher
    batch,          \* the batcher's in-memory batch
    stream,         \* the remote stream of each channel (sse:stream:{ch})
    redis,          \* RedisStorage.redis is Some (connected)
    max_per_channel, \* the store's max_per_channel
    pushed,         \* history: every entry pushed to a MemoryStorage list, in order
    binding,        \* the remote keys channel:{ch}:instance
    reg_log,        \* history: the ChannelRegistry commands the server has run
    beats,          \* heartbeats published
    source,         \* the ChannelSource, its channel and its handler's calls
    background      \* the background tasks: batcher, heartbeat ticker, sweeper

regVars == <<connections, channel_id, channel_index, queue, receiver, enq>>
subVars == <<pc, last_event_id, replay, replay_pos, out, hbq, cleanup, hooks>>
callVars == <<call, next_event>>
storeVars ==
    <<clock, counter, store_tx, batch, stream, redis, max_per_channel, pushed,
      binding, reg_log>>
vars == <<regVars, subVars, sweep, callVars, storeVars, beats, source, background>>

\* ----------------------------------------------------------------- helpers
Range(s) == {s[i] : i \in 1..Len(s)}

Count(s, x) == Cardinality({i \in 1..Len(s) : s[i] = x})

Pos(s, x) == CHOOSE i \in 1..Len(s) : s[i] = x

\* stream ids are "<ts>-<seq>"; compared as pairs of unsigned integers
IdLess(x, y) == x[1] < y[1] \/ (x[1] = y[1] /\ x[2] < y[2])

IdleCall ==
    [pc |-> "idle", kind |-> "none", ch |-> NoChan, dest |-> NoConn,
     target |-> NoConn, task |-> 0,
     ids |-> <<>>, must |-> {}, visited |-> {}, parked |-> {},
     waiting |-> FALSE, sent |-> 0,
     stream_id |-> NoId, start_set |-> {}, end_set |-> {}]

\* dead: what the last scan collected (dead_ids), kept for the properties
IdleSweep == [pc |-> "idle", ids |-> {}, cur |-> NoConn, dead |-> {}]

\* --------------------------------------------------------- faulty variants
\* Deliberately wrong versions of operators defined below; each property of
\* the development is checked to fail when the corresponding one is swapped in.

\* retain that removes nothing
RetainNothing(ids, c) == ids

\* a drop that finds no cleanup closure
CleanupMissing(c) == FALSE

\* select instead of chain: realtime items are taken as soon as they are ready
SelectSource(c) ==
    IF queue[c] # <<>> \/ hbq[c] # <<>> THEN "realtime"
    ELSE IF replay_pos[c] < Len(replay[c]) THEN "replay" ELSE "realtime"

\* a loop that stops after its first iteration
LoopDoneEarly(rest) == TRUE

\* a tally that counts every connection found in the map
CountedFound(st) == st # "absent"

\* a snapshot that takes the ids of every channel
SnapshotEveryChannel(ch) == channel_index["a"] \o channel_index["b"]

\* retain that removes the first id of the list, whoever it is
RetainFirst(ids, c) == IF ids = <<>> THEN ids ELSE Tail(ids)

\* is_active that takes a connection with undelivered events for a dead one
ActiveWhenDrained(c) == queue[c] = <<>>

\* get_messages_after that also returns the entry the cursor names
FromFound(ch, after) ==
    LET v == stream[ch]
        hit == {i \in 1..Len(v) : call[v[i]].stream_id = after}
    IN  IF after = NoId \/ hit = {} THEN <<>>
        ELSE SubSeq(v, CHOOSE i \in hit : \A j \in hit : i <= j, Len(v))

\* get_messages_after that returns the entries with a greater id, whether or
\* not the cursor names an entry
AfterGreater(ch, after) ==
    IF after = NoId \/ Len(after) # 2 \/ NotNumeric \in Range(after) THEN <<>>
    ELSE SelectSeq(stream[ch], LAMBDA n : IdLess(after, call[n].stream_id))

\* is_valid_stream_id that only counts the parts
AnyTwoParts(id) == Len(id) = 2

\* a trim that keeps the oldest entries
KeepOldest(v, max) == IF Len(v) > max THEN SubSeq(v, 1, max) ELSE v

\* a handler that registers the connection before it consults the auth hook
DeniedAfterRegister(c, L) ==
    /\ pc[c] = "start"
    /\ \A d \in Conns : d < c => pc[d] # "start"
    /\ pc' = [pc EXCEPT ![c] = "denied"]
    /\ last_event_id' = [last_event_id EXCEPT ![c] = L]
    /\ connections' = connections \cup {c}
    /\ UNCHANGED <<channel_id, channel_index, queue, receiver, enq, replay,
                   replay_pos, out, hbq, cleanup, hooks, sweep, callVars,
                   storeVars, beats, source, background>>

\* a broadcast channel that loses the value it is sent
PushLost(q, ts) == q

\* an unregister script that deletes without comparing
DeleteAlways(val, inst) == NoInstance

\* a start that returns as soon as every sender is gone, leaving what the
\* channel still holds
ClosedWithoutDrain ==
    /\ source.pc = "running"
    /\ source.senders = 0
    /\ source' = [source EXCEPT !.pc = "stopped", !.result = "Ok"]
    /\ UNCHANGED <<regVars, subVars, sweep, callVars, storeVars, beats, background>>

\* a background store that sends its request twice
StoreTwice(n) ==
    /\ call[n].pc = "returned"
    /\ call' = [call EXCEPT ![n].pc = "done"]
    /\ store_tx' = Append(Append(store_tx, n), n)
    /\ UNCHANGED <<regVars, subVars, sweep, next_event, clock, counter, batch,
                   stream, redis, max_per_channel, binding, reg_log, pushed,
                   beats, source, background>>

\* a tick that keeps the batch for another attempt when the pipeline fails
BatchTickRetry(ok) ==
    /\ background.batcher = "running"
    /\ batch # <<>>
    /\ batch' = IF ok THEN <<>> ELSE batch
    /\ stream' = IF redis /\ ok THEN [stream EXCEPT !["a"] = @ \o batch] ELSE stream
    /\ background' =
           [background EXCEPT
                !.submitted = [n \in Events |-> @[n] + Count(batch, n)]]
    /\ UNCHANGED <<regVars, subVars, sweep, callVars, clock, counter, store_tx,
                   redis, max_per_channel, binding, reg_log, pushed,
                   beats, source>>

\* a send that makes room by evicting the oldest queued request
send_evicting(tx, n, capacity) ==
    IF Len(tx) < capacity THEN Append(tx, n) ELSE Append(Tail(tx), n)

\* a flush that writes whether or not the store is connected
FlushedUnconnected(b, ok) ==
    IF ok THEN [stream EXCEPT !["a"] = @ \o b] ELSE stream

\* an id made of the timestamp alone
id_without_sequence(ts) == <<ts, 0>>

\* ------------------------------------------------------------ the registry
\* a connection is registered on ch: it is in the main map and in ch's list
Registered(c, ch) ==
    c \in connections /\ channel_id[c] = ch /\ c \in Range(channel_index[ch])

\* SseConnection::is_active: the receiver end has not been dropped
is_active(c) == receiver[c] = "held"

\* registered connections of ch that a send can reach
ActiveOn(ch) == {c \in Conns : Registered(c, ch) /\ is_active(c)}

ActiveAll == {c \in connections : is_active(c)}

\* channel_index.entry(channel_id).or_default().push(connection_id)
IndexPush(ids, c) == Append(ids, c)

\* ids.retain(|id| id != connection_id)
Retain(ids, c) == SelectSeq(ids, LAMBDA x : x # c)

\* A send suspended on a full queue keeps its Ref into the connections map,
\* which is a read lock on the shard of the key: connections.remove(c) and
\* connections.insert(c, ..) wait for the write lock of c's shard until every
\* send suspended on a key of that shard resumes.
LockFree(c) ==
    \A n \in Events, d \in Conns \cup {c} :
        (d = c \/ (c \in Conns /\ background.shard[d] = background.shard[c])) =>
            ~(call[n].waiting /\ call[n].target = d) /\ d \notin call[n].parked

\* mpsc::Sender::send appends to the tail of the buffer
Enqueue(q, n) == Append(q, n)

\* what connections.get(id) + conn.send(event).await meets
TargetState(c) ==
    IF c \notin connections THEN "absent"
    ELSE IF receiver[c] = "dropped" THEN "closed"
    ELSE IF Len(queue[c]) < QueueCap THEN "ready"
    ELSE "full"

\* `if conn.send(event.clone()).await { sent += 1; }`
Counted(st) == st = "ready"

\* the `for conn_id in connection_ids` loop ends when the snapshot is exhausted
LoopDone(rest) == rest = <<>>

\* the snapshot send_to_channel iterates over
SnapshotIds(ch) == channel_index[ch]

\* ------------------------------------------------- sse_connect and its stream
\* stream ids a client has seen on the wire (the id: field of an emitted event)
SeenIds ==
    {call[o[2]].stream_id : o \in
        {x \in UNION {Range(out[c]) : c \in Conns} : x[1] # "heartbeat"}}
    \ {NoId}

\* register, first half: SseConnection::new and connections.insert
RegisterInsert(c, ch, L) ==
    /\ pc[c] = "start"
    /\ LockFree(c)
    /\ \A d \in Conns : d < c => pc[d] # "start"
    /\ pc' = [pc EXCEPT ![c] = "inserted"]
    /\ last_event_id' = [last_event_id EXCEPT ![c] = L]
    /\ channel_id' = [channel_id EXCEPT ![c] = ch]
    /\ receiver' = [receiver EXCEPT ![c] = "held"]
    /\ connections' = connections \cup {c}
    /\ UNCHANGED <<channel_index, queue, enq, replay, replay_pos, out, hbq,
                   cleanup, hooks, sweep, callVars, storeVars, beats, source, background>>

\* register, second half: the channel index; then the on_connect hook
RegisterIndex(c) ==
    /\ pc[c] = "inserted"
    /\ pc' = [pc EXCEPT ![c] = "registered"]
    /\ channel_index' =
           [channel_index EXCEPT ![channel_id[c]] = IndexPush(@, c)]
    /\ hooks' = [hooks EXCEPT ![c].connect = @ + 1]
    /\ UNCHANGED <<connections, channel_id, queue, receiver, enq, last_event_id,
                   replay, replay_pos, out, hbq, cleanup, sweep, callVars,
                   storeVars, beats, source, background>>

\* XRANGE key (after + COUNT n: the entries strictly after the cursor
XRange(ch, after) ==
    LET hits == SelectSeq(stream[ch],
                          LAMBDA n : IdLess(after, call[n].stream_id))
    IN  IF Len(hits) > MaxMessagesPerChannel
        THEN SubSeq(hits, 1, MaxMessagesPerChannel) ELSE hits

\* RedisStorage::is_valid_stream_id: two parts, both parse as u64
is_valid_stream_id(id) ==
    Len(id) = 2 /\ id[1] # NotNumeric /\ id[2] # NotNumeric

\* RedisStorage::get_messages_after; ok: the XRANGE query succeeds
get_messages_after(ch, after, ok) ==
    IF after = NoId THEN <<>>
    ELSE IF ~is_valid_stream_id(after) THEN <<>>
    ELSE IF ~redis THEN <<>>
    ELSE IF ok THEN XRange(ch, after)
    ELSE <<>>

\* the replay fetch returns; the stream is assembled:
\* replay_stream.chain(select(event_stream, heartbeat_stream)) in a CleanupStream
AssembleStream(c, ok) ==
    /\ pc[c] = "registered"
    /\ pc' = [pc EXCEPT ![c] = "streaming"]
    /\ replay' = [replay EXCEPT ![c] =
                     get_messages_after(channel_id[c], last_event_id[c], ok)]
    /\ cleanup' = [cleanup EXCEPT ![c] = TRUE]
    /\ UNCHANGED <<regVars, last_event_id, replay_pos, out, hbq, hooks, sweep,
                   callVars, storeVars, beats, source, background>>

\* the request future is dropped while the replay fetch is pending: the
\* receiver goes with it, no CleanupStream exists yet
AbandonRequest(c) ==
    /\ pc[c] = "registered"
    /\ pc' = [pc EXCEPT ![c] = "abandoned"]
    /\ receiver' = [receiver EXCEPT ![c] = "dropped"]
    /\ queue' = [queue EXCEPT ![c] = <<>>]
    /\ UNCHANGED <<connections, channel_id, channel_index, enq, last_event_id,
                   replay, replay_pos, out, hbq, cleanup, hooks, sweep, callVars,
                   storeVars, beats, source, background>>

\* Chain polls its first stream until it is exhausted, then the second
ChainSource(c) == IF replay_pos[c] < Len(replay[c]) THEN "replay" ELSE "realtime"

EmitReplay(c) ==
    /\ pc[c] = "streaming"
    /\ ChainSource(c) = "replay"
    /\ replay_pos[c] < Len(replay[c])
    /\ replay_pos' = [replay_pos EXCEPT ![c] = @ + 1]
    /\ out' = [out EXCEPT ![c] = Append(@, <<"replay", replay[c][replay_pos[c] + 1]>>)]
    /\ UNCHANGED <<regVars, pc, last_event_id, replay, hbq, cleanup, hooks,
                   sweep, callVars, storeVars, beats, source, background>>

\* ReceiverStream yields the head of the connection's queue
EmitEvent(c) ==
    /\ pc[c] = "streaming"
    /\ ChainSource(c) = "realtime"
    /\ queue[c] # <<>>
    /\ queue' = [queue EXCEPT ![c] = Tail(@)]
    /\ out' = [out EXCEPT ![c] = Append(@, <<"event", Head(queue[c])>>)]
    /\ UNCHANGED <<connections, channel_id, channel_index, receiver, enq, pc,
                   last_event_id, replay, replay_pos, hbq, cleanup, hooks, sweep,
                   callVars, storeVars, beats, source, background>>

\* `if let Some(cleanup) = self.cleanup.take()`
CleanupTaken(c) == cleanup[c]

\* the stream is dropped (client close, drain, error): CleanupStream::drop
DropStream(c) ==
    /\ pc[c] = "streaming"
    /\ cleanup' = [cleanup EXCEPT ![c] = FALSE]
    /\ IF CleanupTaken(c)
       THEN /\ pc' = [pc EXCEPT ![c] = "unreg_remove"]
            /\ hooks' = [hooks EXCEPT ![c].cleanup = @ + 1]
            /\ UNCHANGED <<receiver, queue>>
       ELSE /\ pc' = [pc EXCEPT ![c] = "closed"]
            /\ receiver' = [receiver EXCEPT ![c] = "dropped"]
            /\ queue' = [queue EXCEPT ![c] = <<>>]
            /\ UNCHANGED hooks
    /\ UNCHANGED <<connections, channel_id, channel_index, enq, last_event_id,
                   replay, replay_pos, out, hbq, sweep, callVars, storeVars,
                   beats, source, background>>

\* the rest of the drop once unregister has returned: the on_disconnect hook,
\* then the stream's fields (the receiver among them) are dropped
FinishDrop(c) ==
    /\ hooks' = [hooks EXCEPT ![c].disconnect = @ + 1]
    /\ receiver' = [receiver EXCEPT ![c] = "dropped"]
    /\ queue' = [queue EXCEPT ![c] = <<>>]
    /\ hbq' = [hbq EXCEPT ![c] = <<>>]

\* unregister, first half: connections.remove(connection_id)
UnregisterRemove(c) ==
    /\ pc[c] = "unreg_remove"
    /\ LockFree(c)
    /\ connections' = connections \ {c}
    /\ IF c \in connections
       THEN /\ pc' = [pc EXCEPT ![c] = "unreg_index"]
            /\ UNCHANGED <<receiver, queue, hbq, hooks>>
       ELSE /\ pc' = [pc EXCEPT ![c] = "closed"]
            /\ FinishDrop(c)
    /\ UNCHANGED <<channel_id, channel_index, enq, last_event_id, replay,
                   replay_pos, out, cleanup, sweep, callVars, storeVars,
                   beats, source, background>>

\* unregister, second half (library crate): channel_index.get_mut + retain
UnregisterIndex(c) ==
    /\ pc[c] = "unreg_index"
    /\ pc' = [pc EXCEPT ![c] = "closed"]
    /\ channel_index' = [channel_index EXCEPT ![channel_id[c]] = Retain(@, c)]
    /\ FinishDrop(c)
    /\ UNCHANGED <<connections, channel_id, enq, last_event_id, replay,
                   replay_pos, out, cleanup, sweep, callVars, storeVars,
                   beats, source, background>>

\* connection_count(): connections.len()
connection_count == Cardinality(connections)

\* channel_connection_count(ch): the length of ch's id list, 0 without one
channel_connection_count(ch) == Len(channel_index[ch])

\* ------------------------------------------------ cleanup_dead_connections
\* the scan: the ids of the connections whose sender is closed
SweepScan ==
    /\ background.sweeper = "running"
    /\ sweep.pc = "idle"
    /\ {c \in connections : ~is_active(c)} # {}
    /\ sweep' = [pc |-> "remove", ids |-> {c \in connections : ~is_active(c)},
                 cur |-> NoConn, dead |-> {c \in connections : ~is_active(c)}]
    /\ UNCHANGED <<regVars, subVars, callVars, storeVars, beats, source, background>>

SweepNext(ids) ==
    [pc |-> IF ids = {} THEN "idle" ELSE "remove", ids |-> ids, cur |-> NoConn,
     dead |-> sweep.dead]

\* unregister(id), first half
SweepRemove(c) ==
    /\ sweep.pc = "remove"
    /\ c \in sweep.ids
    /\ LockFree(c)
    /\ connections' = connections \ {c}
    /\ sweep' = IF c \in connections
                THEN [sweep EXCEPT !.pc = "index", !.cur = c]
                ELSE SweepNext(sweep.ids \ {c})
    /\ UNCHANGED <<channel_id, channel_index, queue, receiver, enq, subVars,
                   callVars, storeVars, beats, source, background>>

\* unregister(id), second half (library crate)
SweepIndex ==
    /\ sweep.pc = "index"
    /\ channel_index' =
           [channel_index EXCEPT ![channel_id[sweep.cur]] = Retain(@, sweep.cur)]
    /\ sweep' = SweepNext(sweep.ids \ {sweep.cur})
    /\ UNCHANGED <<connections, channel_id, queue, receiver, enq, subVars,
                   callVars, storeVars, beats, source, background>>

\* ------------------------------------- send_to_channel / send_to_connection
\* the call returns; a dispatcher task goes on to spawn the background store
Finish(r) ==
    [r EXCEPT !.pc = IF r.task = 0 /\ r.kind = "channel" THEN "returned" ELSE "done",
              !.waiting = FALSE,
              !.target = NoConn,
              !.end_set = CASE r.kind = "channel" -> ActiveOn(r.ch)
                            [] r.kind = "broadcast" -> ActiveAll
                            [] OTHER -> {c \in {r.dest} : c \in ActiveAll}]

\* send_to_channel starts: the snapshot of the channel's id list
BeginChannel(r) ==
    LET r1 == [r EXCEPT !.pc = "sending", !.ids = SnapshotIds(r.ch),
                        !.start_set = ActiveOn(r.ch)]
    IN  IF r1.ids = <<>> THEN Finish(r1) ELSE r1

\* send_to_connection(id, e): connections.get(id), then one send
\* (must, visited record what the call met: the id registered, its receiver
\* dropped)
BeginConnection(r) ==
    [r EXCEPT !.pc = "sending", !.ids = <<r.dest>>,
              !.start_set = {c \in {r.dest} : c \in ActiveAll},
              !.must = {c \in {r.dest} : Registered(c, channel_id[c])},
              !.visited = {c \in {r.dest} : c \in Conns /\ receiver[c] = "dropped"}]

\* broadcast starts iterating the connections map
BeginBroadcast(r) ==
    [r EXCEPT !.pc = "sending", !.must = connections, !.start_set = ActiveAll]

\* one send of call n to connection c: connections.get(c), conn.send(e).await
SendOne(n, c, r1) ==
    LET st == TargetState(c) IN
    IF st = "full"
    THEN /\ call' = [call EXCEPT ![n].waiting = TRUE, ![n].target = c]
         /\ UNCHANGED <<queue, enq>>
    ELSE /\ call' = [call EXCEPT ![n] =
                [r1 EXCEPT !.sent = IF Counted(st) THEN @ + 1 ELSE @,
                           !.waiting = FALSE, !.target = NoConn]]
         /\ IF st = "ready"
            THEN /\ queue' = [queue EXCEPT ![c] = Enqueue(@, n)]
                 /\ enq' = [enq EXCEPT ![c] = Append(@, n)]
            ELSE UNCHANGED <<queue, enq>>

\* the body of `for conn_id in connection_ids`, one iteration
SendStep(n) ==
    /\ call[n].pc = "sending"
    /\ call[n].kind \in {"channel", "connection"}
    /\ call[n].waiting => TargetState(Head(call[n].ids)) # "full"
    /\ LET c == Head(call[n].ids)
           rest == Tail(call[n].ids)
           r1 == [call[n] EXCEPT !.ids = rest]
       IN  SendOne(n, c, IF LoopDone(rest) /\ TargetState(c) # "full"
                         THEN Finish(r1) ELSE r1)
    /\ UNCHANGED <<connections, channel_id, channel_index, receiver, subVars,
                   sweep, next_event, storeVars, beats, source, background>>

\* `for entry in self.connections.iter()`, one iteration
BroadcastStep(n, c) ==
    /\ call[n].pc = "sending"
    /\ call[n].kind = "broadcast"
    /\ IF call[n].waiting
       THEN c = call[n].target /\ TargetState(c) # "full"
       ELSE c \in connections \ call[n].visited
    /\ SendOne(n, c, [call[n] EXCEPT !.visited = @ \cup {c}])
    /\ UNCHANGED <<connections, channel_id, channel_index, receiver, subVars,
                   sweep, next_event, storeVars, beats, source, background>>

\* the iterator is exhausted: every entry that was in the map throughout has
\* been visited (an entry inserted meanwhile may or may not have been)
BroadcastReturn(n) ==
    /\ call[n].pc = "sending"
    /\ call[n].kind = "broadcast"
    /\ ~call[n].waiting
    /\ (call[n].must \cap connections) \subseteq call[n].visited
    /\ call' = [call EXCEPT ![n] = Finish(@)]
    /\ UNCHANGED <<regVars, subVars, sweep, next_event, storeVars,
                   beats, source, background>>

\* ------------------------------------------------ callers of the registry
TaskIdle(t) ==
    \A n \in Events : call[n].task = t => call[n].pc \in {"idle", "done"}

\* a source task calls send_to_channel / send_to_connection / broadcast;
\* its calls are serial
StartCall(t, kind, ch, d) ==
    /\ next_event <= MaxEvents
    /\ TaskIdle(t)
    /\ LET r == [IdleCall EXCEPT !.kind = kind, !.ch = ch, !.dest = d, !.task = t]
       IN  call' = [call EXCEPT ![next_event] =
                CASE kind = "channel" -> BeginChannel(r)
                  [] kind = "connection" -> BeginConnection(r)
                  [] OTHER -> BeginBroadcast(r)]
    /\ next_event' = next_event + 1
    /\ UNCHANGED <<regVars, subVars, sweep, storeVars, beats, source, background>>

SendToChannel(t, ch) == StartCall(t, "channel", ch, NoConn)

SendToConnection(t, d) == StartCall(t, "connection", NoChan, d)

Broadcast(t) == StartCall(t, "broadcast", NoChan, NoConn)

\* ------------------------------------------------------------ initial state
\* ConnectionManager::new, RedisStorage::new + connect, no request yet
\* everything but the store's connection and capacity
InitBeforeConnect ==
    /\ connections = {}
    /\ channel_id = [c \in Conns |-> NoChan]
    /\ channel_index = [ch \in Channels |-> <<>>]
    /\ queue = [c \in Conns |-> <<>>]
    /\ receiver = [c \in Conns |-> "none"]
    /\ enq = [c \in Conns |-> <<>>]
    /\ pc = [c \in Conns |-> "start"]
    /\ last_event_id = [c \in Conns |-> NoId]
    /\ replay = [c \in Conns |-> <<>>]
    /\ replay_pos = [c \in Conns |-> 0]
    /\ out = [c \in Conns |-> <<>>]
    /\ hbq = [c \in Conns |-> <<>>]
    /\ cleanup = [c \in Conns |-> FALSE]
    /\ hooks = [c \in Conns |-> [cleanup |-> 0, connect |-> 0, disconnect |-> 0]]
    /\ sweep = IdleSweep
    /\ clock = 1
    /\ counter = 0
    /\ store_tx = <<>>
    /\ batch = <<>>
    /\ pushed = [ch \in Channels |-> <<>>]
    /\ binding = [k \in Keys |-> IF k = InstanceKey THEN ThisInstance ELSE NoInstance]
    /\ reg_log = <<>>
    /\ beats = 0
    /\ source = NewSource

\* everything but the store's capacity: connected, no message yet, the
\* server's streams empty
InitExceptCapacity ==
    /\ InitBeforeConnect
    /\ call = [n \in Events |-> IdleCall]
    /\ next_event = 1
    /\ stream = [ch \in Channels |-> <<>>]
    /\ redis = TRUE
    /\ background = Spawned

\* the stores are built with DEFAULT_MAX_MESSAGES_PER_CHANNEL
Init == InitExceptCapacity /\ max_per_channel = MaxMessagesPerChannel

\* ------------------------------------------------ the registry under its callers
\* subscribers come and go, the sweeper runs, source tasks call the send API
NextRegistry ==
    \/ \E c \in Conns, ch \in Channels : RegisterInsert(c, ch, NoId)
    \/ \E c \in Conns : RegisterIndex(c)
    \/ \E c \in Conns : AssembleStream(c, TRUE)
    \/ \E c \in Conns : AbandonRequest(c)
    \/ \E c \in Conns : EmitEvent(c)
    \/ \E c \in Conns : DropStream(c)
    \/ \E c \in Conns : UnregisterRemove(c)
    \/ \E c \in Conns : UnregisterIndex(c)
    \/ SweepScan
    \/ \E c \in Conns : SweepRemove(c)
    \/ SweepIndex
    \/ \E t \in Tasks, ch \in Channels : SendToChannel(t, ch)
    \/ \E t \in Tasks, d \in Conns : SendToConnection(t, d)
    \/ \E t \in Tasks : Broadcast(t)
    \/ \E n \in Events : SendStep(n)
    \/ \E n \in Events, c \in Conns : BroadcastStep(n, c)
    \/ \E n \in Events : BroadcastReturn(n)

SpecRegistry == Init /\ [][NextRegistry]_vars

\* ------------------------------------- the registry of src/src/sse (binary)
\* Its register is the library's without hooks; its unregister also removes a
\* channel entry it found empty, after releasing the entry's guard.  An absent
\* entry and an empty list are the same value here (get + unwrap_or_default).

\* register, second half: channel_connections.entry(ch).or_default().push(id)
BinRegisterIndex(c) ==
    /\ pc[c] = "inserted"
    /\ pc' = [pc EXCEPT ![c] = "registered"]
    /\ channel_index' =
           [channel_index EXCEPT ![channel_id[c]] = IndexPush(@, c)]
    /\ UNCHANGED <<connections, channel_id, queue, receiver, enq, last_event_id,
                   replay, replay_pos, out, hbq, cleanup, hooks, sweep, callVars,
                   storeVars, beats, source, background>>

\* after the cleanup closure has returned the stream's fields are dropped
BinFinishDrop(c) ==
    /\ receiver' = [receiver EXCEPT ![c] = "dropped"]
    /\ queue' = [queue EXCEPT ![c] = <<>>]
    /\ hbq' = [hbq EXCEPT ![c] = <<>>]

\* `let mut should_remove = false; ... should_remove = channel_conns.is_empty()`
should_remove(ids) == ids = <<>>

\* unregister, step 1: connections.remove(connection_id)
BinUnregisterRemove(c) ==
    /\ pc[c] = "unreg_remove"
    /\ LockFree(c)
    /\ connections' = connections \ {c}
    /\ IF c \in connections
       THEN /\ pc' = [pc EXCEPT ![c] = "unreg_index"]
            /\ UNCHANGED <<receiver, queue, hbq>>
       ELSE /\ pc' = [pc EXCEPT ![c] = "closed"]
            /\ BinFinishDrop(c)
    /\ UNCHANGED <<channel_id, channel_index, enq, last_event_id, replay,
                   replay_pos, out, cleanup, hooks, sweep, callVars, storeVars,
                   beats, source, background>>

\* unregister, step 2: get_mut, retain, is_empty; the guard is released
BinUnregisterRetain(c) ==
    /\ pc[c] = "unreg_index"
    /\ LET ids == Retain(channel_index[channel_id[c]], c) IN
       /\ channel_index' = [channel_index EXCEPT ![channel_id[c]] = ids]
       /\ IF should_remove(ids)
          THEN /\ pc' = [pc EXCEPT ![c] = "unreg_prune"]
               /\ UNCHANGED <<receiver, queue, hbq>>
          ELSE /\ pc' = [pc EXCEPT ![c] = "closed"]
               /\ BinFinishDrop(c)
    /\ UNCHANGED <<connections, channel_id, enq, last_event_id, replay,
                   replay_pos, out, cleanup, hooks, sweep, callVars, storeVars,
                   beats, source, background>>

\* unregister, step 3: channel_connections.remove(&channel_id)
BinUnregisterPrune(c) ==
    /\ pc[c] = "unreg_prune"
    /\ pc' = [pc EXCEPT ![c] = "closed"]
    /\ channel_index' = [channel_index EXCEPT ![channel_id[c]] = <<>>]
    /\ BinFinishDrop(c)
    /\ UNCHANGED <<connections, channel_id, enq, last_event_id, replay,
                   replay_pos, out, cleanup, hooks, sweep, callVars, storeVars,
                   beats, source, background>>

\* cleanup_dead_connections: unregister(id), step 1
BinSweepRemove(c) ==
    /\ sweep.pc = "remove"
    /\ c \in sweep.ids
    /\ LockFree(c)
    /\ connections' = connections \ {c}
    /\ sweep' = IF c \in connections
                THEN [sweep EXCEPT !.pc = "index", !.cur = c]
                ELSE SweepNext(sweep.ids \ {c})
    /\ UNCHANGED <<channel_id, channel_index, queue, receiver, enq, subVars,
                   callVars, storeVars, beats, source, background>>

\* cleanup_dead_connections: unregister(id), step 2
BinSweepRetain ==
    /\ sweep.pc = "index"
    /\ LET ids == Retain(channel_index[channel_id[sweep.cur]], sweep.cur) IN
       /\ channel_index' = [channel_index EXCEPT ![channel_id[sweep.cur]] = ids]
       /\ sweep' = IF should_remove(ids)
                   THEN [sweep EXCEPT !.pc = "prune"]
                   ELSE SweepNext(sweep.ids \ {sweep.cur})
    /\ UNCHANGED <<connections, channel_id, queue, receiver, enq, subVars,
                   callVars, storeVars, beats, source, background>>

\* cleanup_dead_connections: unregister(id), step 3
BinSweepPrune ==
    /\ sweep.pc = "prune"
    /\ channel_index' = [channel_index EXCEPT ![channel_id[sweep.cur]] = <<>>]
    /\ sweep' = SweepNext(sweep.ids \ {sweep.cur})
    /\ UNCHANGED <<connections, channel_id, queue, receiver, enq, subVars,
                   callVars, storeVars, beats, source, background>>

\* subscribers come and go on the binary's registry, the sweep runs
NextBin ==
    \/ \E c \in Conns, ch \in Channels : RegisterInsert(c, ch, NoId)
    \/ \E c \in Conns : BinRegisterIndex(c)
    \/ \E c \in Conns : AssembleStream(c, TRUE)
    \/ \E c \in Conns : AbandonRequest(c)
    \/ \E c \in Conns : DropStream(c)
    \/ \E c \in Conns : BinUnregisterRemove(c)
    \/ \E c \in Conns : BinUnregisterRetain(c)
    \/ \E c \in Conns : BinUnregisterPrune(c)
    \/ SweepScan
    \/ \E c \in Conns : BinSweepRemove(c)
    \/ BinSweepRetain
    \/ BinSweepPrune

SpecBin == Init /\ [][NextBin]_vars

\* --------------------------------------------------- the ingestion dispatcher
\* Dispatcher::to_handler: the source calls handler(msg), which spawns one task
\* running Dispatcher::handle(msg); messages are numbered in the order passed
Ingest(kind, ch) ==
    /\ next_event <= MaxEvents
    /\ background.store_open
    /\ call' = [call EXCEPT ![next_event] =
                   [IdleCall EXCEPT !.pc = "spawned", !.kind = kind, !.ch = ch]]
    /\ next_event' = next_event + 1
    /\ UNCHANGED <<regVars, subVars, sweep, storeVars, beats, source, background>>

\* generate_id, `let ts = chrono::Utc::now().timestamp_millis()`: the task
\* holds the timestamp it read (the sequence part is not drawn yet)
ReadTimestamp(n) ==
    /\ call[n].pc = "spawned"
    /\ call[n].kind = "channel"
    /\ call' = [call EXCEPT ![n].pc = "stamped", ![n].stream_id = <<clock, 0>>]
    /\ UNCHANGED <<regVars, subVars, sweep, next_event, storeVars,
                   beats, source, background>>

\* RedisStorage::generate_id: format!("{}-{}", ts, seq)
generate_id(ts) == <<ts, counter>>

\* generate_id, `let seq = self.counter.fetch_add(1, SeqCst)` and the result:
\* handle, channel branch, `let stream_id = self.storage.generate_id()`
GenerateId(n) ==
    /\ call[n].pc = "stamped"
    /\ call[n].kind = "channel"
    /\ call' = [call EXCEPT ![n].pc = "start",
                            ![n].stream_id = generate_id(call[n].stream_id[1])]
    /\ counter' = counter + 1
    /\ UNCHANGED <<regVars, subVars, sweep, next_event, clock, store_tx, batch,
                   stream, redis, max_per_channel, binding, reg_log, pushed,
                   beats, source, background>>

\* handle, channel branch: send_to_channel(channel_id, event.clone()) starts
DispatchSend(n) ==
    /\ call[n].pc = "start"
    /\ call' = [call EXCEPT ![n] = BeginChannel(@)]
    /\ UNCHANGED <<regVars, subVars, sweep, next_event, storeVars,
                   beats, source, background>>

\* handle, None branch: broadcast(event) starts
DispatchBroadcast(n) ==
    /\ call[n].pc = "spawned"
    /\ call[n].kind = "broadcast"
    /\ call' = [call EXCEPT ![n] = BeginBroadcast(@)]
    /\ UNCHANGED <<regVars, subVars, sweep, next_event, storeVars,
                   beats, source, background>>

\* `self.store_tx.try_send(req)`: the request is queued when the channel has
\* room and dropped otherwise; the caller does not wait
try_send(tx, n, capacity) == IF Len(tx) < capacity THEN Append(tx, n) ELSE tx

\* the spawned background task runs RedisStorage::store: try_send to the
\* batcher, whose channel holds `capacity` requests
StoreRequestOf(n, capacity) ==
    /\ call[n].pc = "returned"
    /\ call' = [call EXCEPT ![n].pc = "done"]
    /\ store_tx' = try_send(store_tx, n, capacity)
    /\ UNCHANGED <<regVars, subVars, sweep, next_event, clock, counter, batch,
                   stream, redis, max_per_channel, binding, reg_log, pushed,
                   beats, source, background>>

StoreRequest(n) == StoreRequestOf(n, StoreChannelCapacity)

\* XADD key MAXLEN ~ N <stream_id> ...: the server refuses an id that is not
\* greater than the stream's last one
XAdd(s, n) ==
    IF s = <<>> \/ IdLess(call[s[Len(s)]].stream_id, call[n].stream_id)
    THEN Append(s, n) ELSE s

\* the pipeline of a flush, request by request
RECURSIVE Pipeline(_, _)
Pipeline(st, b) ==
    IF b = <<>> THEN st
    ELSE Pipeline([st EXCEPT ![call[Head(b)].ch] = XAdd(@, Head(b))], Tail(b))

\* flush_batch: nothing is written while not connected, or when the pipeline
\* fails or times out; the batch is cleared in every case
Flushed(b, ok) == IF redis /\ ok THEN Pipeline(stream, b) ELSE stream

\* flush_batch: a pipeline is sent when the store is connected
Submit(b) ==
    IF redis
    THEN [background EXCEPT
              !.submitted = [n \in Events |-> @[n] + Count(b, n)]]
    ELSE background

\* batcher, `msg = rx.recv()`: push, and flush when the batch is full
BatchRecvOf(ok, size) ==
    /\ background.batcher = "running"
    /\ store_tx # <<>>
    /\ store_tx' = Tail(store_tx)
    /\ LET b == Append(batch, Head(store_tx)) IN
       IF Len(b) >= size
       THEN batch' = <<>> /\ stream' = Flushed(b, ok) /\ background' = Submit(b)
       ELSE batch' = b /\ ok /\ UNCHANGED <<stream, background>>
    /\ UNCHANGED <<regVars, subVars, sweep, callVars, clock, counter, redis,
                   max_per_channel, binding, reg_log, pushed, beats, source>>

BatchRecv(ok) == BatchRecvOf(ok, BatchSize)

\* batcher, `interval.tick()`: flush a non-empty batch
BatchTick(ok) ==
    /\ background.batcher = "running"
    /\ batch # <<>>
    /\ batch' = <<>>
    /\ stream' = Flushed(batch, ok)
    /\ background' = Submit(batch)
    /\ UNCHANGED <<regVars, subVars, sweep, callVars, clock, counter, store_tx,
                   redis, max_per_channel, binding, reg_log, pushed,
                   beats, source>>

\* shutdown: the dispatcher and every other owner of a RedisStorage clone are
\* gone, so every sender of the request channel is dropped
DropStorage ==
    /\ background.store_open
    /\ \A n \in Events : call[n].pc \in {"idle", "done"}
    /\ background' = [background EXCEPT !.store_open = FALSE]
    /\ UNCHANGED <<regVars, subVars, sweep, callVars, storeVars, beats, source>>

\* batcher, `msg = rx.recv()` yields None (channel closed and empty): break.
\* The task ends; `batch` keeps what the Vec held when it was dropped.
BatchExit ==
    /\ background.batcher = "running"
    /\ ~background.store_open
    /\ store_tx = <<>>
    /\ background' = [background EXCEPT !.batcher = "exited"]
    /\ UNCHANGED <<regVars, subVars, sweep, callVars, storeVars, beats, source>>

\* ------------------------------------------------------- clock and heartbeat
Tick ==
    /\ clock < MaxClock
    /\ clock' = clock + 1
    /\ UNCHANGED <<regVars, subVars, sweep, callVars, counter, store_tx, batch,
                   stream, redis, max_per_channel, binding, reg_log, pushed,
                   beats, source, background>>

\* a broadcast channel keeps the newest 16 values for a lagging receiver
HeartbeatPush(q, ts) ==
    IF Len(q) < HeartbeatChannelCapacity THEN Append(q, ts) ELSE Append(Tail(q), ts)

\* send_heartbeat: the tick reaches every live subscription
SendHeartbeat ==
    /\ background.ticker = "running"
    /\ beats < MaxBeats
    /\ beats' = beats + 1
    /\ hbq' = [c \in Conns |->
                  IF pc[c] = "streaming" THEN HeartbeatPush(hbq[c], clock) ELSE hbq[c]]
    /\ UNCHANGED <<regVars, pc, last_event_id, replay, replay_pos, out, cleanup,
                   hooks, sweep, callVars, storeVars, source, background>>

\* the heartbeat stream yields a tick
EmitHeartbeat(c) ==
    /\ pc[c] = "streaming"
    /\ ChainSource(c) = "realtime"
    /\ hbq[c] # <<>>
    /\ hbq' = [hbq EXCEPT ![c] = Tail(@)]
    /\ out' = [out EXCEPT ![c] = Append(@, <<"heartbeat", Head(hbq[c])>>)]
    /\ UNCHANGED <<regVars, pc, last_event_id, replay, replay_pos, cleanup, hooks,
                   sweep, callVars, storeVars, beats, source, background>>

\* the last-event-id a reconnecting client presents: none, or a stream id it
\* has seen on the wire
LastEventIds == {NoId} \cup SeenIds

\* ------------------------------------------- the gateway: ingest, store, streams
\* subscribers connect to channel "a" (first-time or with a last-event-id) and
\* stay connected; a source ingests messages for "a"; the batcher stores them;
\* the heartbeat ticker runs
NextGateway ==
    \/ \E c \in Conns, L \in LastEventIds : RegisterInsert(c, "a", L)
    \/ \E c \in Conns : RegisterIndex(c)
    \/ \E c \in Conns, ok \in BOOLEAN : AssembleStream(c, ok)
    \/ \E c \in Conns : EmitReplay(c)
    \/ \E c \in Conns : EmitEvent(c)
    \/ \E c \in Conns : EmitHeartbeat(c)
    \/ Ingest("channel", "a")
    \/ \E n \in Events : ReadTimestamp(n)
    \/ \E n \in Events : GenerateId(n)
    \/ \E n \in Events : DispatchSend(n)
    \/ \E n \in Events : SendStep(n)
    \/ \E n \in Events : StoreRequest(n)
    \/ \E ok \in BOOLEAN : BatchRecv(ok)
    \/ \E ok \in BOOLEAN : BatchTick(ok)
    \/ Tick
    \/ SendHeartbeat

SpecGateway == Init /\ [][NextGateway]_vars

\* the gateway with the store reachable throughout: the replay fetch and
\* every flush succeed
NextReconnect ==
    \/ \E c \in Conns, L \in LastEventIds : RegisterInsert(c, "a", L)
    \/ \E c \in Conns : RegisterIndex(c)
    \/ \E c \in Conns : AssembleStream(c, TRUE)
    \/ \E c \in Conns : EmitReplay(c)
    \/ \E c \in Conns : EmitEvent(c)
    \/ Ingest("channel", "a")
    \/ \E n \in Events : ReadTimestamp(n)
    \/ \E n \in Events : GenerateId(n)
    \/ \E n \in Events : DispatchSend(n)
    \/ \E n \in Events : SendStep(n)
    \/ \E n \in Events : StoreRequest(n)
    \/ BatchRecv(TRUE)
    \/ BatchTick(TRUE)
    \/ Tick

SpecReconnect == Init /\ [][NextReconnect]_vars

\* ------------------------------------------- unregister called through the API
\* A caller holds the id of a connection register has returned, or an id that
\* was never registered; call[n].sent records whether connections.remove found
\* the id.
KnownIds == {c \in Conns : pc[c] \notin {"start", "inserted"}} \cup {NoConn}

\* unregister(connection_id) is called
UnregisterCall(id) ==
    /\ next_event <= MaxEvents
    /\ id \in KnownIds
    /\ call' = [call EXCEPT ![next_event] =
                   [IdleCall EXCEPT !.pc = "remove", !.kind = "unregister",
                                    !.dest = id]]
    /\ next_event' = next_event + 1
    /\ UNCHANGED <<regVars, subVars, sweep, storeVars, beats, source, background>>

\* `if let Some((_, connection)) = self.connections.remove(connection_id)`
UnregisterCallRemove(n) ==
    /\ call[n].kind = "unregister"
    /\ call[n].pc = "remove"
    /\ LockFree(call[n].dest)
    /\ connections' = connections \ {call[n].dest}
    /\ call' = [call EXCEPT ![n] =
                   IF call[n].dest \in connections
                   THEN [@ EXCEPT !.pc = "index", !.sent = 1]
                   ELSE [@ EXCEPT !.pc = "done"]]
    /\ UNCHANGED <<channel_id, channel_index, queue, receiver, enq, subVars,
                   sweep, next_event, storeVars, beats, source, background>>

\* `if let Some(mut ids) = self.channel_index.get_mut(..) { ids.retain(..) }`
UnregisterCallIndex(n) ==
    /\ call[n].kind = "unregister"
    /\ call[n].pc = "index"
    /\ channel_index' = [channel_index EXCEPT ![channel_id[call[n].dest]] =
                            Retain(@, call[n].dest)]
    /\ call' = [call EXCEPT ![n].pc = "done"]
    /\ UNCHANGED <<connections, channel_id, queue, receiver, enq, subVars,
                   sweep, next_event, storeVars, beats, source, background>>

\* subscribers come and go, the sweeper runs, callers unregister ids
NextUnregister ==
    \/ \E c \in Conns, ch \in Channels : RegisterInsert(c, ch, NoId)
    \/ \E c \in Conns : RegisterIndex(c)
    \/ \E c \in Conns : AssembleStream(c, TRUE)
    \/ \E c \in Conns : AbandonRequest(c)
    \/ \E c \in Conns : DropStream(c)
    \/ \E c \in Conns : UnregisterRemove(c)
    \/ \E c \in Conns : UnregisterIndex(c)
    \/ SweepScan
    \/ \E c \in Conns : SweepRemove(c)
    \/ SweepIndex
    \/ \E id \in Conns \cup {NoConn} : UnregisterCall(id)
    \/ \E n \in Events : UnregisterCallRemove(n)
    \/ \E n \in Events : UnregisterCallIndex(n)

SpecUnregister == Init /\ [][NextUnregister]_vars

\* ------------------------------- send_to_channel of src/src/sse (binary)
\* join_all over one send_to_connection future per id of the snapshot.  The
\* first poll runs the futures in list order; a future that finds the queue
\* full stays pending with its Ref into the connections map (call[n].parked)
\* and is polled again when the queue has room.  A future whose send fails
\* calls unregister with its Ref still in scope (waiting, target).

\* send_to_channel starts: the snapshot; `if connection_ids.is_empty()`
BinSendToChannel(t, ch) ==
    /\ next_event <= MaxEvents
    /\ TaskIdle(t)
    /\ call' = [call EXCEPT ![next_event] =
                   BeginChannel([IdleCall EXCEPT !.kind = "channel", !.ch = ch,
                                                 !.task = t])]
    /\ next_event' = next_event + 1
    /\ UNCHANGED <<regVars, subVars, sweep, storeVars, beats, source, background>>

\* join_all is complete when no future is left to poll or pending
BinJoined(r) == IF r.ids = <<>> /\ r.parked = {} THEN Finish(r) ELSE r

\* what one poll of send_to_connection(c, e) does to the call
BinPolled(r, c) ==
    LET st == TargetState(c) IN
    CASE st = "absent" -> BinJoined(r)
      [] st = "ready"  -> BinJoined([r EXCEPT !.sent = @ + 1])
      [] st = "full"   -> [r EXCEPT !.parked = @ \cup {c}]
      [] OTHER         -> [r EXCEPT !.pc = "unregister", !.waiting = TRUE,
                                    !.target = c]

\* the effect of the poll on the connection's queue
BinDeliver(n, c) ==
    IF TargetState(c) = "ready"
    THEN /\ queue' = [queue EXCEPT ![c] = Enqueue(@, n)]
         /\ enq' = [enq EXCEPT ![c] = Append(@, n)]
    ELSE UNCHANGED <<queue, enq>>

\* first poll of the next future of the list
BinSendPoll(n) ==
    /\ call[n].pc = "sending"
    /\ call[n].ids # <<>>
    /\ LET c == Head(call[n].ids) IN
       /\ call' = [call EXCEPT ![n] = BinPolled([@ EXCEPT !.ids = Tail(@)], c)]
       /\ BinDeliver(n, c)
    /\ UNCHANGED <<connections, channel_id, channel_index, receiver, subVars,
                   sweep, next_event, storeVars, beats, source, background>>

\* a pending future is woken: the queue has room or the receiver is gone
BinSendResume(n, c) ==
    /\ call[n].pc = "sending"
    /\ call[n].ids = <<>>
    /\ c \in call[n].parked
    /\ TargetState(c) # "full"
    /\ call' = [call EXCEPT ![n] = BinPolled([@ EXCEPT !.parked = @ \ {c}], c)]
    /\ BinDeliver(n, c)
    /\ UNCHANGED <<connections, channel_id, channel_index, receiver, subVars,
                   sweep, next_event, storeVars, beats, source, background>>

\* `Err(_) => { self.unregister(connection_id); false }`: connections.remove,
\* which needs the shard lock no Ref holds
BinSendUnregister(n) ==
    /\ call[n].pc = "unregister"
    /\ LockFree(call[n].target)
    /\ connections' = connections \ {call[n].target}
    /\ call' = [call EXCEPT ![n].pc = "unreg_index"]
    /\ UNCHANGED <<channel_id, channel_index, queue, receiver, enq, subVars,
                   sweep, next_event, storeVars, beats, source, background>>

\* subscribers of the binary connect (some requests are abandoned), the sweep
\* runs, a source task sends to their channels
NextBinSend ==
    \/ \E c \in Conns, ch \in Channels : RegisterInsert(c, ch, NoId)
    \/ \E c \in Conns : BinRegisterIndex(c)
    \/ \E c \in Conns : AssembleStream(c, TRUE)
    \/ \E c \in Conns : AbandonRequest(c)
    \/ \E c \in Conns : EmitEvent(c)
    \/ SweepScan
    \/ \E c \in Conns : BinSweepRemove(c)
    \/ BinSweepRetain
    \/ BinSweepPrune
    \/ \E t \in Tasks, ch \in Channels : BinSendToChannel(t, ch)
    \/ \E n \in Events : BinSendPoll(n)
    \/ \E n \in Events, c \in Conns : BinSendResume(n, c)

SpecBinSend == Init /\ [][NextBinSend]_vars

\* ----------------------------------- register against unregister (binary)
\* subscribers of the binary come and go while a source task sends to their
\* channels; no sweep runs
NextBinRace ==
    \/ \E c \in Conns, ch \in Channels : RegisterInsert(c, ch, NoId)
    \/ \E c \in Conns : BinRegisterIndex(c)
    \/ \E c \in Conns : AssembleStream(c, TRUE)
    \/ \E c \in Conns : EmitEvent(c)
    \/ \E c \in Conns : DropStream(c)
    \/ \E c \in Conns : BinUnregisterRemove(c)
    \/ \E c \in Conns : BinUnregisterRetain(c)
    \/ \E c \in Conns : BinUnregisterPrune(c)
    \/ \E t \in Tasks, ch \in Channels : BinSendToChannel(t, ch)
    \/ \E n \in Events : BinSendPoll(n)
    \/ \E n \in Events, c \in Conns : BinSendResume(n, c)

SpecBinRace == Init /\ [][NextBinRace]_vars

\* ------------------------------------------- send_to_connection (library)
\* subscribers connect (some requests are abandoned), the sweeper runs, a
\* source task sends to single connections
NextSendConnection ==
    \/ \E c \in Conns, ch \in Channels : RegisterInsert(c, ch, NoId)
    \/ \E c \in Conns : RegisterIndex(c)
    \/ \E c \in Conns : AssembleStream(c, TRUE)
    \/ \E c \in Conns : AbandonRequest(c)
    \/ \E c \in Conns : EmitEvent(c)
    \/ SweepScan
    \/ \E c \in Conns : SweepRemove(c)
    \/ SweepIndex
    \/ \E t \in Tasks, d \in Conns \cup {NoConn} : SendToConnection(t, d)
    \/ \E n \in Events : SendStep(n)

SpecSendConnection == Init /\ [][NextSendConnection]_vars

\* ------------------------------------- send_to_channel against a full queue
\* subscribers connect and may or may not drain their queues; a source task
\* sends to channels. The task that runs send_to_channel is scheduled
\* whenever its send can proceed; nothing obliges a client to read.
NextSendFull ==
    \/ \E c \in Conns, ch \in Channels : RegisterInsert(c, ch, NoId)
    \/ \E c \in Conns : RegisterIndex(c)
    \/ \E c \in Conns : AssembleStream(c, TRUE)
    \/ \E c \in Conns : EmitEvent(c)
    \/ \E t \in Tasks, ch \in Channels : SendToChannel(t, ch)
    \/ \E n \in Events : SendStep(n)

SpecSendFull ==
    /\ Init
    /\ [][NextSendFull]_vars
    /\ \A n \in Events : WF_vars(SendStep(n))

\* the same, with streams that may be dropped at any moment; the thread that
\* runs CleanupStream::drop goes on as soon as the shard lock is free
NextDropFull ==
    \/ \E c \in Conns, ch \in Channels : RegisterInsert(c, ch, NoId)
    \/ \E c \in Conns : RegisterIndex(c)
    \/ \E c \in Conns : AssembleStream(c, TRUE)
    \/ \E c \in Conns : EmitEvent(c)
    \/ \E c \in Conns : DropStream(c)
    \/ \E c \in Conns : UnregisterRemove(c)
    \/ \E c \in Conns : UnregisterIndex(c)
    \/ \E t \in Tasks, ch \in Channels : SendToChannel(t, ch)
    \/ \E n \in Events : SendStep(n)

SpecDropFull ==
    /\ Init
    /\ [][NextDropFull]_vars
    /\ \A n \in Events : WF_vars(SendStep(n))
    /\ \A c \in Conns : WF_vars(UnregisterRemove(c))
    /\ \A c \in Conns : WF_vars(UnregisterIndex(c))

\* --------------------------------------------- MemoryStorage (library crate)
\* In this part the store is a MemoryStorage: `stream` is its `streams` map
\* (the entries, oldest first; the id of entry n is call[n].stream_id) and
\* `counter` its counter.

\* a MemoryStorage built with MemoryStorage::new(max)
InitMemory == InitExceptCapacity /\ max_per_channel \in 1..MaxPerChannel

\* store(channel, event) is called; generate_stream_id reads the clock
MemoryStore(ch) ==
    /\ next_event <= MaxEvents
    /\ call' = [call EXCEPT ![next_event] =
                   [IdleCall EXCEPT !.pc = "stamped", !.kind = "store", !.ch = ch,
                                    !.stream_id = <<clock, 0>>]]
    /\ next_event' = next_event + 1
    /\ UNCHANGED <<regVars, subVars, sweep, storeVars, beats, source, background>>

\* MemoryStorage::generate_stream_id: format!("{}-{}", ts, seq)
generate_stream_id(ts) == <<ts, counter>>

\* generate_stream_id, `let seq = self.counter.fetch_add(1, SeqCst)`
MemoryGenerateId(n) ==
    /\ call[n].pc = "stamped"
    /\ call[n].kind = "store"
    /\ call' = [call EXCEPT ![n].pc = "push",
                            ![n].stream_id = generate_stream_id(call[n].stream_id[1])]
    /\ counter' = counter + 1
    /\ UNCHANGED <<regVars, subVars, sweep, next_event, clock, store_tx, batch,
                   stream, redis, max_per_channel, binding, reg_log, pushed,
                   beats, source, background>>

\* store: streams.entry(channel).or_default().push((stream_id, stored_event))
MemoryPush(n) ==
    /\ call[n].pc = "push"
    /\ call' = [call EXCEPT ![n].pc = "trim"]
    /\ stream' = [stream EXCEPT ![call[n].ch] = Append(@, n)]
    /\ pushed' = [pushed EXCEPT ![call[n].ch] = Append(@, n)]
    /\ UNCHANGED <<regVars, subVars, sweep, next_event, clock, counter, store_tx,
                   batch, redis, max_per_channel, binding, reg_log,
                   beats, source, background>>

\* `if v.len() > max { v.drain(0..v.len() - max); }`
Drain(v, max) ==
    IF Len(v) > max THEN SubSeq(v, Len(v) - max + 1, Len(v)) ELSE v

\* store: streams.alter(channel, ...) trims the list; store returns
MemoryTrim(n) ==
    /\ call[n].pc = "trim"
    /\ call' = [call EXCEPT ![n].pc = "done"]
    /\ stream' = [stream EXCEPT ![call[n].ch] = Drain(@, max_per_channel)]
    /\ UNCHANGED <<regVars, subVars, sweep, next_event, clock, counter, store_tx,
                   batch, redis, max_per_channel, binding, reg_log, pushed,
                   beats, source, background>>

\* the filter_map of get_messages_after: entries are skipped up to and
\* including the first one whose id equals after_id, the rest is returned
RECURSIVE SkipToFound(_, _)
SkipToFound(v, after) ==
    IF v = <<>> THEN <<>>
    ELSE IF call[Head(v)].stream_id = after THEN Tail(v)
    ELSE SkipToFound(Tail(v), after)

\* MemoryStorage::get_messages_after
MemoryGetMessagesAfter(ch, after) ==
    IF after = NoId THEN <<>> ELSE SkipToFound(stream[ch], after)

\* sse_connect with a MemoryStorage: the replay fetch returns, the stream is
\* assembled
AssembleMemoryStream(c) ==
    /\ pc[c] = "registered"
    /\ pc' = [pc EXCEPT ![c] = "streaming"]
    /\ replay' = [replay EXCEPT ![c] =
                     MemoryGetMessagesAfter(channel_id[c], last_event_id[c])]
    /\ cleanup' = [cleanup EXCEPT ![c] = TRUE]
    /\ UNCHANGED <<regVars, last_event_id, replay_pos, out, hbq, hooks, sweep,
                   callVars, storeVars, beats, source, background>>

\* last-event-id values a client may present: none, "non-existent", "0-0",
\* and every id the store can produce
Cursors ==
    {NoId, <<NotNumeric, NotNumeric>>, <<0, 0>>}
        \cup {<<ts, seq>> : ts \in 1..MaxClock, seq \in 0..(MaxEvents - 1)}

\* callers store events concurrently; subscribers connect to channel "a"
\* with any cursor
NextMemory ==
    \/ \E ch \in Channels : MemoryStore(ch)
    \/ \E n \in Events : MemoryGenerateId(n)
    \/ \E n \in Events : MemoryPush(n)
    \/ \E n \in Events : MemoryTrim(n)
    \/ Tick
    \/ \E c \in Conns, L \in Cursors : RegisterInsert(c, "a", L)
    \/ \E c \in Conns : RegisterIndex(c)
    \/ \E c \in Conns : AssembleMemoryStream(c)

SpecMemory == InitMemory /\ [][NextMemory]_vars

\* ------------------------------------------- subscribers with a bad cursor
\* last-event-id values that are not <unsigned>-<unsigned>: "1", "1-x",
\* "1-0-0"
MalformedCursors == {<<1>>, <<1, NotNumeric>>, <<1, 0, 0>>}

\* what a client presents here: a malformed value, or a stream id it has seen
PresentedIds == MalformedCursors \cup SeenIds

\* subscribers connect to channel "a" presenting a last-event-id (malformed,
\* or seen on the wire) and read their streams; a source ingests messages for
\* "a"; the batcher stores them
NextMalformed ==
    \/ \E c \in Conns, L \in PresentedIds : RegisterInsert(c, "a", L)
    \/ \E c \in Conns : RegisterIndex(c)
    \/ \E c \in Conns, ok \in BOOLEAN : AssembleStream(c, ok)
    \/ \E c \in Conns : EmitReplay(c)
    \/ \E c \in Conns : EmitEvent(c)
    \/ Ingest("channel", "a")
    \/ \E n \in Events : ReadTimestamp(n)
    \/ \E n \in Events : GenerateId(n)
    \/ \E n \in Events : DispatchSend(n)
    \/ \E n \in Events : SendStep(n)
    \/ \E n \in Events : StoreRequest(n)
    \/ \E ok \in BOOLEAN : BatchRecv(ok)
    \/ \E ok \in BOOLEAN : BatchTick(ok)

SpecMalformed == Init /\ [][NextMalformed]_vars

\* ------------------------------------------------------------ the auth hook
\* sse_connect reads the headers, the auth hook returns Some(response):
\* `return response`
AuthDenied(c, L) ==
    /\ pc[c] = "start"
    /\ \A d \in Conns : d < c => pc[d] # "start"
    /\ pc' = [pc EXCEPT ![c] = "denied"]
    /\ last_event_id' = [last_event_id EXCEPT ![c] = L]
    /\ UNCHANGED <<regVars, replay, replay_pos, out, hbq, cleanup, hooks, sweep,
                   callVars, storeVars, beats, source, background>>

\* subscribe requests for channel "a" are denied by the auth hook or let
\* through; those let through read their streams; a source ingests messages
\* for "a"; the batcher stores them
NextAuth ==
    \/ \E c \in Conns, L \in LastEventIds : AuthDenied(c, L)
    \/ \E c \in Conns, L \in LastEventIds : RegisterInsert(c, "a", L)
    \/ \E c \in Conns : RegisterIndex(c)
    \/ \E c \in Conns, ok \in BOOLEAN : AssembleStream(c, ok)
    \/ \E c \in Conns : EmitReplay(c)
    \/ \E c \in Conns : EmitEvent(c)
    \/ Ingest("channel", "a")
    \/ \E n \in Events : ReadTimestamp(n)
    \/ \E n \in Events : GenerateId(n)
    \/ \E n \in Events : DispatchSend(n)
    \/ \E n \in Events : SendStep(n)
    \/ \E n \in Events : StoreRequest(n)
    \/ \E ok \in BOOLEAN : BatchRecv(ok)
    \/ \E ok \in BOOLEAN : BatchTick(ok)

SpecAuth == Init /\ [][NextAuth]_vars

\* ------------------------------------------------- heartbeats to the streams
\* subscribers connect to channel "a" and read their streams; a source task
\* sends to "a"; the clock advances; the heartbeat ticker publishes. A stream
\* whose client reads is polled again and again, and select() serves its two
\* sides in turn: a pending heartbeat is not passed over for ever.
NextBeat ==
    \/ \E c \in Conns : RegisterInsert(c, "a", NoId)
    \/ \E c \in Conns : RegisterIndex(c)
    \/ \E c \in Conns : AssembleStream(c, TRUE)
    \/ \E c \in Conns : EmitEvent(c)
    \/ \E c \in Conns : EmitHeartbeat(c)
    \/ \E t \in Tasks : SendToChannel(t, "a")
    \/ \E n \in Events : SendStep(n)
    \/ Tick
    \/ SendHeartbeat

SpecBeat ==
    /\ Init
    /\ [][NextBeat]_vars
    /\ \A c \in Conns : WF_vars(EmitHeartbeat(c))

\* ------------------------------------- ChannelRegistry (src/src/main.rs)
\* The binary's source spawns register_channel from on_connect and
\* unregister_channel from on_disconnect. The tasks of this instance are
\* read off the hook counts and the log; the other instance is seen only
\* through the commands it sends.
LogEntry(op, inst, ch, c) == [op |-> op, inst |-> inst, ch |-> ch, conn |-> c]

\* the task spawned by c's on_connect / on_disconnect has run its command
HasRun(op, c) ==
    \E i \in 1..Len(reg_log) : reg_log[i].op = op /\ reg_log[i].conn = c

\* commands the other instance has sent
OtherCalls ==
    Len(SelectSeq(reg_log, LAMBDA e : e.inst = OtherInstance))

\* the script of unregister_channel:
\* `if GET key == ARGV[1] then DEL key`, run atomically by the server
unregister_script(val, inst) == IF val = inst THEN NoInstance ELSE val

\* register_channel: SET key instance EX ttl
SetBinding(ch, inst, c) ==
    /\ binding' = [binding EXCEPT ![ch] = inst]
    /\ reg_log' = Append(reg_log, LogEntry("set", inst, ch, c))

\* unregister_channel: the script
DelBinding(ch, inst, c) ==
    /\ binding' = [binding EXCEPT ![ch] = unregister_script(@, inst)]
    /\ reg_log' = Append(reg_log, LogEntry("del", inst, ch, c))

\* the task spawned by on_connect runs register_channel
RunRegisterChannel(c) ==
    /\ hooks[c].connect > 0
    /\ ~HasRun("set", c)
    /\ SetBinding(channel_id[c], ThisInstance, c)
    /\ UNCHANGED <<regVars, subVars, sweep, callVars, clock, counter, store_tx,
                   batch, stream, redis, max_per_channel, pushed,
                   beats, source, background>>

\* the task spawned by on_disconnect runs unregister_channel
RunUnregisterChannel(c) ==
    /\ hooks[c].disconnect > 0
    /\ ~HasRun("del", c)
    /\ DelBinding(channel_id[c], ThisInstance, c)
    /\ UNCHANGED <<regVars, subVars, sweep, callVars, clock, counter, store_tx,
                   batch, stream, redis, max_per_channel, pushed,
                   beats, source, background>>

\* the other instance runs register_channel(ch)
OtherRegisterChannel(ch) ==
    /\ OtherCalls < MaxOtherCalls
    /\ SetBinding(ch, OtherInstance, NoConn)
    /\ UNCHANGED <<regVars, subVars, sweep, callVars, clock, counter, store_tx,
                   batch, stream, redis, max_per_channel, pushed,
                   beats, source, background>>

\* the other instance runs unregister_channel(ch)
OtherUnregisterChannel(ch) ==
    /\ OtherCalls < MaxOtherCalls
    /\ DelBinding(ch, OtherInstance, NoConn)
    /\ UNCHANGED <<regVars, subVars, sweep, callVars, clock, counter, store_tx,
                   batch, stream, redis, max_per_channel, pushed,
                   beats, source, background>>

\* a key's TTL (EX channel_ttl, EXPIRE instance_ttl) lapses
Expire(k) ==
    /\ binding[k] # NoInstance
    /\ binding' = [binding EXCEPT ![k] = NoInstance]
    /\ UNCHANGED <<regVars, subVars, sweep, callVars, clock, counter, store_tx,
                   batch, stream, redis, max_per_channel, pushed, reg_log,
                   beats, source, background>>

\* ServiceRegistry::heartbeat: HSET last_seen and EXPIRE on this instance's
\* key only; no channel key is written
InstanceHeartbeat ==
    /\ binding' = [binding EXCEPT ![InstanceKey] = ThisInstance]
    /\ UNCHANGED <<regVars, subVars, sweep, callVars, clock, counter, store_tx,
                   batch, stream, redis, max_per_channel, pushed, reg_log,
                   beats, source, background>>

\* subscribers connect to this instance and disconnect; the spawned registry
\* tasks run in any order; the other instance registers and unregisters
\* channels; keys expire
NextDiscovery ==
    \/ \E c \in Conns, ch \in Channels : RegisterInsert(c, ch, NoId)
    \/ \E c \in Conns : RegisterIndex(c)
    \/ \E c \in Conns : AssembleStream(c, TRUE)
    \/ \E c \in Conns : DropStream(c)
    \/ \E c \in Conns : UnregisterRemove(c)
    \/ \E c \in Conns : UnregisterIndex(c)
    \/ \E c \in Conns : RunRegisterChannel(c)
    \/ \E c \in Conns : RunUnregisterChannel(c)
    \/ \E ch \in Channels : OtherRegisterChannel(ch)
    \/ \E ch \in Channels : OtherUnregisterChannel(ch)
    \/ \E k \in Keys : Expire(k)
    \/ InstanceHeartbeat

SpecDiscovery == Init /\ [][NextDiscovery]_vars

\* this instance alone: no other instance claims a channel
NextLocal ==
    \/ \E c \in Conns, ch \in Channels : RegisterInsert(c, ch, NoId)
    \/ \E c \in Conns : RegisterIndex(c)
    \/ \E c \in Conns : AssembleStream(c, TRUE)
    \/ \E c \in Conns : DropStream(c)
    \/ \E c \in Conns : UnregisterRemove(c)
    \/ \E c \in Conns : UnregisterIndex(c)
    \/ \E c \in Conns : RunRegisterChannel(c)
    \/ \E c \in Conns : RunUnregisterChannel(c)
    \/ \E k \in Keys : Expire(k)
    \/ InstanceHeartbeat

\* every spawned task runs, and the heartbeat loop keeps ticking
SpecLocal ==
    /\ Init /\ [][NextLocal]_vars
    /\ \A c \in Conns : WF_vars(RunRegisterChannel(c))
    /\ \A c \in Conns : WF_vars(RunUnregisterChannel(c))
    /\ WF_vars(InstanceHeartbeat)

\* ------------------------------------------------------------ ChannelSource
\* sender.send(msg) returns Ok: the receiver is alive and the channel has room
SourceSend(m) ==
    /\ source.senders > 0
    /\ source.pc # "stopped"
    /\ Len(source.sent) < MaxSent
    /\ Len(source.inbox) < SourceChannelCapacity
    /\ source' = [source EXCEPT !.inbox = Append(@, m), !.sent = Append(@, m)]
    /\ UNCHANGED <<regVars, subVars, sweep, callVars, storeVars, beats, background>>

\* sender.clone()
SourceCloneSender ==
    /\ source.senders > 0
    /\ source.senders < MaxSenders
    /\ source' = [source EXCEPT !.senders = @ + 1]
    /\ UNCHANGED <<regVars, subVars, sweep, callVars, storeVars, beats, background>>

\* drop(sender)
SourceDropSender ==
    /\ source.senders > 0
    /\ source' = [source EXCEPT !.senders = @ - 1]
    /\ UNCHANGED <<regVars, subVars, sweep, callVars, storeVars, beats, background>>

\* cancel.cancel()
SourceCancel ==
    /\ ~source.cancelled
    /\ source' = [source EXCEPT !.cancelled = TRUE]
    /\ UNCHANGED <<regVars, subVars, sweep, callVars, storeVars, beats, background>>

\* start takes the receiver out of the mutex
SourceStart ==
    /\ source.pc = "new"
    /\ source' = [source EXCEPT !.pc = "running"]
    /\ UNCHANGED <<regVars, subVars, sweep, callVars, storeVars, beats, background>>

\* select! takes the recv branch with Some(msg): handler(msg)
SourceRecv ==
    /\ source.pc = "running"
    /\ source.inbox # <<>>
    /\ source' = [source EXCEPT !.handled = Append(@, Head(source.inbox)),
                                !.inbox = Tail(@)]
    /\ UNCHANGED <<regVars, subVars, sweep, callVars, storeVars, beats, background>>

\* select! takes the recv branch with None (the channel is empty and every
\* sender is gone): break, Ok(())
SourceClosed ==
    /\ source.pc = "running"
    /\ source.inbox = <<>>
    /\ source.senders = 0
    /\ source' = [source EXCEPT !.pc = "stopped", !.result = "Ok"]
    /\ UNCHANGED <<regVars, subVars, sweep, callVars, storeVars, beats, background>>

\* select! takes the cancelled branch: break, Ok(()); the receiver is dropped
\* with whatever the channel still holds
SourceCancelled ==
    /\ source.pc = "running"
    /\ source.cancelled
    /\ source' = [source EXCEPT !.pc = "stopped", !.result = "Ok",
                                !.inbox = <<>>]
    /\ UNCHANGED <<regVars, subVars, sweep, callVars, storeVars, beats, background>>

NextSource ==
    \/ \E m \in Payloads : SourceSend(m)
    \/ SourceCloneSender
    \/ SourceDropSender
    \/ SourceCancel
    \/ SourceStart
    \/ SourceRecv
    \/ SourceClosed
    \/ SourceCancelled

\* the task running start is scheduled; a ready select! branch is taken
SpecSource ==
    /\ Init /\ [][NextSource]_vars
    /\ WF_vars(SourceStart) /\ WF_vars(SourceRecv)
    /\ WF_vars(SourceClosed) /\ WF_vars(SourceCancelled)

\* ------------------------------------------- the hooks of a subscribe request
\* requests register, are abandoned or get their stream, streams are dropped,
\* the sweeper runs; every unregister that has started goes on, and the
\* sweeper's interval keeps ticking
NextHooks ==
    \/ \E c \in Conns, ch \in Channels : RegisterInsert(c, ch, NoId)
    \/ \E c \in Conns : RegisterIndex(c)
    \/ \E c \in Conns : AssembleStream(c, TRUE)
    \/ \E c \in Conns : AbandonRequest(c)
    \/ \E c \in Conns : DropStream(c)
    \/ \E c \in Conns : UnregisterRemove(c)
    \/ \E c \in Conns : UnregisterIndex(c)
    \/ SweepScan
    \/ \E c \in Conns : SweepRemove(c)
    \/ SweepIndex

SpecHooks ==
    /\ Init /\ [][NextHooks]_vars
    /\ \A c \in Conns : WF_vars(UnregisterRemove(c))
    /\ \A c \in Conns : WF_vars(UnregisterIndex(c))
    /\ WF_vars(SweepScan) /\ WF_vars(SweepIndex)
    /\ \A c \in Conns : WF_vars(SweepRemove(c))

\* ------------------------------------------------- POST /push (src/src/main.rs)
\* handle_push, `let stream_id = state.storage.generate_id()`: the timestamp
HandlePush(ch) ==
    /\ next_event < MaxEvents
    /\ call' = [call EXCEPT ![next_event] =
                   [IdleCall EXCEPT !.pc = "stamped", !.kind = "push", !.ch = ch,
                                    !.stream_id = <<clock, 0>>]]
    /\ next_event' = next_event + 1
    /\ UNCHANGED <<regVars, subVars, sweep, storeVars, beats, source, background>>

\* handle_push, generate_id: the sequence number and the id
PushGenerateId(n) ==
    /\ call[n].pc = "stamped"
    /\ call[n].kind = "push"
    /\ call' = [call EXCEPT ![n].pc = "forward",
                            ![n].stream_id = generate_id(call[n].stream_id[1])]
    /\ counter' = counter + 1
    /\ UNCHANGED <<regVars, subVars, sweep, next_event, clock, store_tx, batch,
                   stream, redis, max_per_channel, binding, reg_log, pushed,
                   beats, source, background>>

\* handle_push, `state.sender.send(msg).await`: DirectPushSource::start
\* receives the message and calls handler(msg), which spawns
\* Dispatcher::handle for it
PushForward(n) ==
    /\ call[n].pc = "forward"
    /\ next_event <= MaxEvents
    /\ call' = [call EXCEPT ![n].pc = "store",
                            ![next_event] =
                                [IdleCall EXCEPT !.pc = "spawned",
                                                 !.kind = "channel",
                                                 !.ch = call[n].ch]]
    /\ next_event' = next_event + 1
    /\ UNCHANGED <<regVars, subVars, sweep, storeVars, beats, source, background>>

\* handle_push, `state.storage.store(&channel_id, &stream_id, &event).await`
PushStore(n) ==
    /\ call[n].pc = "store"
    /\ call' = [call EXCEPT ![n].pc = "done"]
    /\ store_tx' = try_send(store_tx, n, StoreChannelCapacity)
    /\ UNCHANGED <<regVars, subVars, sweep, next_event, clock, counter, batch,
                   stream, redis, max_per_channel, binding, reg_log, pushed,
                   beats, source, background>>

\* clients subscribe, messages arrive through POST /push, the dispatcher and
\* the batcher run
NextPush ==
    \/ \E c \in Conns, ch \in Channels : RegisterInsert(c, ch, NoId)
    \/ \E c \in Conns : RegisterIndex(c)
    \/ \E c \in Conns : AssembleStream(c, TRUE)
    \/ \E c \in Conns : EmitEvent(c)
    \/ \E ch \in Channels : HandlePush(ch)
    \/ \E n \in Events : PushGenerateId(n)
    \/ \E n \in Events : PushForward(n)
    \/ \E n \in Events : PushStore(n)
    \/ \E n \in Events : ReadTimestamp(n)
    \/ \E n \in Events : GenerateId(n)
    \/ \E n \in Events : DispatchSend(n)
    \/ \E n \in Events : SendStep(n)
    \/ \E n \in Events : StoreRequest(n)
    \/ \E ok \in BOOLEAN : BatchRecv(ok)
    \/ \E ok \in BOOLEAN : BatchTick(ok)
    \/ Tick

SpecPush == Init /\ [][NextPush]_vars

\* ------------------------------------------- the dispatcher, both branches
\* subscribers connect to channel "a"; the source passes messages that name
\* "a" and messages without a channel; the spawned store tasks and the
\* batcher run
NextDispatch ==
    \/ \E c \in Conns : RegisterInsert(c, "a", NoId)
    \/ \E c \in Conns : RegisterIndex(c)
    \/ \E c \in Conns : AssembleStream(c, TRUE)
    \/ \E c \in Conns : EmitEvent(c)
    \/ Ingest("channel", "a")
    \/ Ingest("broadcast", NoChan)
    \/ \E n \in Events : ReadTimestamp(n)
    \/ \E n \in Events : GenerateId(n)
    \/ \E n \in Events : DispatchSend(n)
    \/ \E n \in Events : DispatchBroadcast(n)
    \/ \E n \in Events : SendStep(n)
    \/ \E n \in Events, c \in Conns : BroadcastStep(n, c)
    \/ \E n \in Events : BroadcastReturn(n)
    \/ \E n \in Events : StoreRequest(n)
    \/ \E ok \in BOOLEAN : BatchRecv(ok)
    \/ \E ok \in BOOLEAN : BatchTick(ok)

\* a spawned store task runs
SpecDispatch ==
    /\ Init /\ [][NextDispatch]_vars
    /\ \A n \in Events : WF_vars(StoreRequest(n))

\* ------------------------------------------------- the batcher at shutdown
\* messages for "a" are dispatched and stored; then the storage is dropped
\* and the batcher sees its channel closed
NextShutdown ==
    \/ \E c \in Conns : RegisterInsert(c, "a", NoId)
    \/ \E c \in Conns : RegisterIndex(c)
    \/ Ingest("channel", "a")
    \/ \E n \in Events : ReadTimestamp(n)
    \/ \E n \in Events : GenerateId(n)
    \/ \E n \in Events : DispatchSend(n)
    \/ \E n \in Events : SendStep(n)
    \/ \E n \in Events : StoreRequest(n)
    \/ \E ok \in BOOLEAN : BatchRecv(ok)
    \/ \E ok \in BOOLEAN : BatchTick(ok)
    \/ DropStorage
    \/ BatchExit

SpecShutdown == Init /\ [][NextShutdown]_vars

\* ------------------------------------------------- the batcher, scaled down
\* the batcher with a batch size and a request channel small enough for the
\* full-batch flush and the full channel to happen with MaxEvents messages
NextBatch ==
    \/ Ingest("channel", "a")
    \/ \E n \in Events : ReadTimestamp(n)
    \/ \E n \in Events : GenerateId(n)
    \/ \E n \in Events : DispatchSend(n)
    \/ \E n \in Events : StoreRequestOf(n, SmallCapacity)
    \/ \E ok \in BOOLEAN : BatchRecvOf(ok, SmallBatch)
    \/ \E ok \in BOOLEAN : BatchTick(ok)
    \/ Tick

SpecBatch == Init /\ [][NextBatch]_vars

\* ------------------------------------------------- the store not yet connected
\* the entry a previous run of the gateway left in the server's stream of "a"
EarlierEntry == 1
EarlierId == <<0, 1>>

\* RedisStorage::new without connect: `redis` is None. The process has been
\* restarted; the server still holds an entry of channel "a" written by the
\* previous run
InitOffline ==
    /\ InitBeforeConnect
    /\ max_per_channel = MaxMessagesPerChannel
    /\ redis = FALSE
    /\ call = [n \in Events |->
                  IF n = EarlierEntry
                  THEN [IdleCall EXCEPT !.pc = "done", !.kind = "earlier",
                                        !.ch = "a", !.stream_id = EarlierId]
                  ELSE IdleCall]
    /\ next_event = EarlierEntry + 1
    /\ stream = [ch \in Channels |-> IF ch = "a" THEN <<EarlierEntry>> ELSE <<>>]
    /\ background =
           [Spawned EXCEPT
               !.submitted = [n \in Events |-> IF n = EarlierEntry THEN 1 ELSE 0]]

\* RedisStorage::connect: `*self.redis.write().await = Some(manager)` when the
\* connection manager could be built, an error and no change otherwise
Connect(ok) ==
    /\ redis' = (redis \/ ok)
    /\ UNCHANGED <<regVars, subVars, sweep, callVars, clock, counter, store_tx,
                   batch, stream, max_per_channel, binding, reg_log, pushed,
                   beats, source, background>>

\* subscribers and messages while the store is not connected, and after
NextOffline ==
    \/ \E c \in Conns, L \in {NoId, <<0, 0>>} : RegisterInsert(c, "a", L)
    \/ \E c \in Conns : RegisterIndex(c)
    \/ \E c \in Conns, ok \in BOOLEAN : AssembleStream(c, ok)
    \/ \E c \in Conns : EmitReplay(c)
    \/ \E c \in Conns : EmitEvent(c)
    \/ Ingest("channel", "a")
    \/ \E n \in Events : ReadTimestamp(n)
    \/ \E n \in Events : GenerateId(n)
    \/ \E n \in Events : DispatchSend(n)
    \/ \E n \in Events : SendStep(n)
    \/ \E n \in Events : StoreRequest(n)
    \/ \E ok \in BOOLEAN : BatchRecv(ok)
    \/ \E ok \in BOOLEAN : BatchTick(ok)
    \/ \E ok \in BOOLEAN : Connect(ok)
    \/ Tick

SpecOffline == InitOffline /\ [][NextOffline]_vars

\* --------------------------------------------------- stream ids, any clock
\* the wall clock is set back (Utc::now() is not monotonic)
ClockBack ==
    /\ clock > 1
    /\ clock' = clock - 1
    /\ UNCHANGED <<regVars, subVars, sweep, callVars, counter, store_tx, batch,
                   stream, redis, max_per_channel, binding, reg_log, pushed,
                   beats, source, background>>

\* concurrent callers draw stream ids from one store's counter, through the
\* dispatcher and the push handler (RedisStorage::generate_id) or through
\* MemoryStorage::store (generate_stream_id), while the clock moves either way
NextIds ==
    \/ Ingest("channel", "a")
    \/ HandlePush("a")
    \/ \E ch \in Channels : MemoryStore(ch)
    \/ \E n \in Events : ReadTimestamp(n)
    \/ \E n \in Events : GenerateId(n)
    \/ \E n \in Events : PushGenerateId(n)
    \/ \E n \in Events : MemoryGenerateId(n)
    \/ Tick
    \/ ClockBack

SpecIds == Init /\ [][NextIds]_vars

\* ------------------------------------------------------------- cancellation
\* shutdown_signal: Ctrl+C or SIGTERM, then `cancel_for_shutdown.cancel()`
Cancel ==
    /\ ~background.cancel
    /\ background' = [background EXCEPT !.cancel = TRUE]
    /\ UNCHANGED <<regVars, subVars, sweep, callVars, storeVars, beats, source>>

\* heartbeat task, `_ = heartbeat_cancel.cancelled() => break`
TickerExit ==
    /\ background.cancel
    /\ background.ticker = "running"
    /\ background' = [background EXCEPT !.ticker = "exited"]
    /\ UNCHANGED <<regVars, subVars, sweep, callVars, storeVars, beats, source>>

\* cleanup task, `_ = cleanup_cancel.cancelled() => break`: the task is at
\* its select!, not inside cleanup_dead_connections
SweeperExit ==
    /\ background.cancel
    /\ background.sweeper = "running"
    /\ sweep.pc = "idle"
    /\ background' = [background EXCEPT !.sweeper = "exited"]
    /\ UNCHANGED <<regVars, subVars, sweep, callVars, storeVars, beats, source>>

\* subscribers connect (some requests are abandoned and leave a dead
\* connection), a source task sends, the two loops of Gateway::run tick, and
\* the shutdown signal arrives at any time; after it the listener accepts no
\* new request and the source takes no new message
NextCancel ==
    \/ ~background.cancel /\ \E c \in Conns : RegisterInsert(c, "a", NoId)
    \/ \E c \in Conns : RegisterIndex(c)
    \/ \E c \in Conns : AssembleStream(c, TRUE)
    \/ \E c \in Conns : AbandonRequest(c)
    \/ \E c \in Conns : EmitEvent(c)
    \/ \E c \in Conns : EmitHeartbeat(c)
    \/ ~background.cancel /\ \E t \in Tasks : SendToChannel(t, "a")
    \/ \E n \in Events : SendStep(n)
    \/ SweepScan
    \/ \E c \in Conns : SweepRemove(c)
    \/ SweepIndex
    \/ SendHeartbeat
    \/ Cancel
    \/ TickerExit
    \/ SweeperExit

\* the keys of the connections map hash to any of its shards
Shards == 1..MaxConns

InitSharded ==
    /\ InitBeforeConnect
    /\ call = [n \in Events |-> IdleCall]
    /\ next_event = 1
    /\ stream = [ch \in Channels |-> <<>>]
    /\ redis = TRUE
    /\ max_per_channel = MaxMessagesPerChannel
    /\ background \in {[Spawned EXCEPT !.shard = f] : f \in [Conns -> Shards]}

\* every started send and sweep goes on; a loop whose token is cancelled
\* takes the cancel branch of its select!: the tick branch is ready only once
\* per interval, the cancel branch every time the loop comes back to it
SpecCancel ==
    /\ InitSharded /\ [][NextCancel]_vars
    /\ \A n \in Events : WF_vars(SendStep(n))
    /\ \A c \in Conns : WF_vars(SweepRemove(c))
    /\ WF_vars(SweepIndex)
    /\ WF_vars(TickerExit)
    /\ SF_vars(SweeperExit)

\* ================================================================ properties
\* events a connection's stream has emitted from its realtime queue, in order
EmittedEvents(c) ==
    LET ev == SelectSeq(out[c], LAMBDA o : o[1] = "event")
    IN  [i \in 1..Len(ev) |-> ev[i][2]]

\* connections event n has been enqueued to
Recipients(n) == {c \in Conns : n \in Range(enq[c])}

\* no register or unregister call is mid-way
Quiescent ==
    /\ \A c \in Conns :
          pc[c] \notin {"inserted", "unreg_remove", "unreg_index", "unreg_prune"}
    /\ sweep.pc = "idle"

\* C1: registry mirror invariant.  Whenever no register or unregister call is
\* mid-way, a connection id is a key of the connections map if and only if it
\* occurs in the channel index, and then exactly once and only in the list of
\* its own channel.
MirrorInvariant ==
    Quiescent =>
        \A c \in Conns :
            /\ c \in connections <=>
                   \E ch \in Channels : c \in Range(channel_index[ch])
            /\ c \in connections =>
                   \A ch \in Channels :
                       Count(channel_index[ch], c) =
                           IF ch = channel_id[c] THEN 1 ELSE 0

\* C2: cleanup totality.  Once the drop of a connection's stream has completed,
\* the connection is absent from the connections map (list_connections,
\* connection_count) and its id is absent from every channel's index list.
CleanupTotality ==
    \A c \in Conns :
        pc[c] = "closed" =>
            /\ c \notin connections
            /\ \A ch \in Channels : c \notin Range(channel_index[ch])

\* a stream has been dropped and cleaned up while another connection stays
\* registered on the same channel
CleanupTotalityWitness ==
    \E c, d \in Conns :
        /\ c # d
        /\ pc[c] = "closed"
        /\ hooks[c].connect = 1
        /\ hooks[c].cleanup = 1
        /\ Registered(d, channel_id[c])

\* C3: the cleanup action of an assembled stream runs exactly once.  The
\* cleanup closure is never invoked twice and on_disconnect never fires twice;
\* while the drop is in unregister the closure has been invoked once and
\* on_disconnect not yet; once the stream has ended both have run exactly once.
CleanupExactlyOnce ==
    \A c \in Conns :
        /\ hooks[c].cleanup <= 1
        /\ hooks[c].disconnect <= hooks[c].cleanup
        /\ pc[c] \in {"unreg_remove", "unreg_index"} =>
               hooks[c].cleanup = 1 /\ hooks[c].disconnect = 0 /\ ~cleanup[c]
        /\ pc[c] = "closed" =>
               hooks[c].cleanup = 1 /\ hooks[c].disconnect = 1 /\ ~cleanup[c]

\* two streams have ended, one after delivering an event, each cleaned up once
CleanupExactlyOnceWitness ==
    /\ \A c \in Conns : pc[c] = "closed" /\ hooks[c].disconnect = 1
    /\ \E c \in Conns : out[c] # <<>>

\* C4: for one subscriber, no event is delivered both in the replay prefix and
\* in the realtime suffix of its stream.
NoReplayRealtimeDuplicate ==
    \A c \in Conns, n \in Events :
        ~(<<"replay", n>> \in Range(out[c]) /\ <<"event", n>> \in Range(out[c]))

\* C5: for a subscriber that connected with Last-Event-ID L, every event
\* enqueued to its realtime queue carries a stream_id strictly greater than L.
RealtimeAfterLastEventId ==
    \A c \in Conns :
        last_event_id[c] # NoId =>
            \A i \in 1..Len(enq[c]) :
                IdLess(last_event_id[c], call[enq[c][i]].stream_id)

Dispatched(n) == call[n].kind = "channel" /\ call[n].pc \in {"returned", "done"}

\* connection c was registered and live at the start and at the end of the
\* dispatch of event n
RegisteredThroughout(c, n) == c \in call[n].start_set /\ c \in call[n].end_set

\* C7: messages M1 then M2 passed to the ingestion handler for one channel
\* reach every subscriber registered throughout both in that order, and no
\* dispatched message is skipped for a subscriber registered throughout it.
IngestOrderPreserved ==
    /\ \A i, j \in Events, c \in Conns :
           (/\ i < j
            /\ Dispatched(i) /\ Dispatched(j)
            /\ call[i].ch = call[j].ch
            /\ RegisteredThroughout(c, i) /\ RegisteredThroughout(c, j))
           => /\ i \in Range(enq[c])
              /\ j \in Range(enq[c])
              /\ Pos(enq[c], i) < Pos(enq[c], j)
    /\ \A n \in Events, c \in Conns :
           Dispatched(n) /\ RegisteredThroughout(c, n) => n \in Range(enq[c])

\* a call of the send API made by a source task has returned
Returned(n, kind) == call[n].kind = kind /\ call[n].pc = "done" /\ call[n].task # 0

FanOutCount ==
    \A n \in Events :
        Returned(n, "channel") =>
            /\ call[n].sent = Cardinality(Recipients(n))
            /\ \A c \in Conns : Count(enq[c], n) <= 1
            /\ (call[n].start_set \cap call[n].end_set) \subseteq Recipients(n)
            /\ Recipients(n) \subseteq call[n].start_set
            /\ call[n].start_set = call[n].end_set =>
                   call[n].sent = Cardinality(call[n].start_set)

\* a send to a channel that holds a live connection and one whose receiver was
\* dropped has returned 1
FanOutCountWitness ==
    \E n \in Events, c, d \in Conns :
        /\ Returned(n, "channel")
        /\ call[n].sent = 1
        /\ call[n].start_set = {c} /\ call[n].end_set = {c}
        /\ d # c
        /\ pc[d] = "abandoned"
        /\ channel_id[d] = call[n].ch
        /\ Registered(d, call[n].ch)

\* C10: routing scope.  An event of send_to_channel(ch, e) is enqueued only to
\* connections of ch, so the queues of the other channels' connections are
\* untouched; broadcast(e) enqueues e once to every connection registered and
\* live from its start to its return, whatever its channel, and returns the
\* number of connections it enqueued to.
RoutingScope ==
    /\ \A c \in Conns : \A i \in 1..Len(enq[c]) :
           call[enq[c][i]].kind = "channel" => call[enq[c][i]].ch = channel_id[c]
    /\ \A n \in Events :
           Returned(n, "broadcast") =>
               /\ call[n].sent = Cardinality(Recipients(n))
               /\ \A c \in Conns : Count(enq[c], n) <= 1
               /\ (call[n].start_set \cap call[n].end_set) \subseteq Recipients(n)

\* connections on two channels: a send to one channel returned 1 and reached
\* only its connection, a broadcast returned 2 and reached both
RoutingScopeWitness ==
    \E c, d \in Conns :
        /\ channel_id[c] = "a" /\ channel_id[d] = "b"
        /\ Returned(1, "channel") /\ call[1].ch = "a" /\ call[1].sent = 1
        /\ Returned(2, "broadcast") /\ call[2].sent = 2
        /\ enq[c] = <<1, 2>>
        /\ enq[d] = <<2>>

\* unregister calls on id c that are past their remove and not yet returned:
\* API calls, the stream's drop-cleanup, the sweeper
InIndexStep(c) ==
    Cardinality({n \in Events : call[n].kind = "unregister" /\ call[n].dest = c
                                /\ call[n].pc = "index"})
    + (IF pc[c] = "unreg_index" THEN 1 ELSE 0)
    + (IF sweep.pc = "index" /\ sweep.cur = c THEN 1 ELSE 0)

\* an unregister(c) call through the API has been made
Touched(c) == \E n \in Events : call[n].kind = "unregister" /\ call[n].dest = c

\* at most one of the unregister calls on an id finds it; once a call on it has
\* returned and none is mid-way the id is in neither map; the other
\* connections stay registered, each once in the list of its own channel
UnregisterOnce ==
    \A c \in Conns :
        /\ InIndexStep(c) <= 1
        /\ Cardinality({n \in Events : call[n].kind = "unregister"
                           /\ call[n].dest = c /\ call[n].sent = 1}) <= 1
        /\ \A ch \in Channels : Count(channel_index[ch], c) <= 1
        /\ (\E n \in Events : call[n].kind = "unregister" /\ call[n].dest = c
                              /\ call[n].pc = "done") =>
               /\ c \notin connections
               /\ InIndexStep(c) = 0 =>
                      \A ch \in Channels : c \notin Range(channel_index[ch])
        /\ (pc[c] \in {"registered", "streaming"} /\ ~Touched(c)) =>
               /\ Registered(c, channel_id[c])
               /\ \A ch \in Channels : ch # channel_id[c] =>
                      c \notin Range(channel_index[ch])

\* a step of an unregister call whose id is not a key of the connections map
\* changes neither map
UnregisterNoop ==
    \A n \in Events :
        (/\ call[n].kind = "unregister"
         /\ call[n].pc = "remove"
         /\ call[n].dest \notin connections
         /\ call'[n].pc # "remove")
        => /\ call'[n].pc = "done"
           /\ UNCHANGED <<connections, channel_index>>

\* C11: unregister is idempotent.  A second unregister(id), or one with an id
\* that was never registered, changes neither the connections map nor the
\* channel index, and concurrent unregister(id) calls leave the registry as one
\* call does: the id gone from both maps, every other connection in place.
UnregisterIdempotent == [](UnregisterOnce) /\ [][UnregisterNoop]_vars

\* two unregister calls on one connection have returned, one found it and one
\* did not; another connection is still registered on the same channel
UnregisterIdempotentWitness ==
    \E c, d \in Conns :
        /\ c # d
        /\ call[1].kind = "unregister" /\ call[1].dest = c /\ call[1].pc = "done"
        /\ call[2].kind = "unregister" /\ call[2].dest = c /\ call[2].pc = "done"
        /\ call[1].sent + call[2].sent = 1
        /\ channel_id[c] = channel_id[d]
        /\ Registered(d, channel_id[d])

\* C12: a failed enqueue does not stop send_to_channel.  A call that met a
\* dropped receiver goes on (its unregister of the failed connection can take
\* its step); when the call returns, the tally is the number of connections
\* the event was enqueued to, which include every connection registered and
\* live throughout, and no connection whose receiver was dropped is counted.
SendSurvivesFailure ==
    \A n \in Events :
        call[n].kind = "channel" =>
            /\ call[n].pc = "unregister" => ENABLED BinSendUnregister(n)
            /\ call[n].pc = "done" =>
                   /\ call[n].sent = Cardinality(Recipients(n))
                   /\ (call[n].start_set \cap call[n].end_set) \subseteq Recipients(n)

\* no unregister of connection c is between its two steps
NotMidUnregister(c) == InIndexStep(c) = 0 /\ ~(sweep.pc = "remove" /\ c \in sweep.ids)

\* C13: send_to_connection(id, e) on a registered connection whose receiver
\* has been dropped returns false and leaves the connection removed from the
\* connections map and from the channel index; on an id that is no key of the
\* map it returns false and enqueues nothing.
SendToDeadConnection ==
    \A n \in Events :
        Returned(n, "connection") =>
            /\ (call[n].dest \in call[n].must \cap call[n].visited) =>
                   /\ call[n].sent = 0
                   /\ NotMidUnregister(call[n].dest) =>
                          /\ call[n].dest \notin connections
                          /\ \A ch \in Channels :
                                 call[n].dest \notin Range(channel_index[ch])
            /\ call[n].sent = Cardinality(Recipients(n))
            /\ call[n].dest = NoConn => call[n].sent = 0

\* C14: a send_to_channel call that meets a full queue whose consumer is not
\* draining is not suspended for ever: every call in its loop eventually
\* leaves it (the send is given up and the remaining recipients are served),
\* whatever the consumers do.
SendNotSuspended ==
    \A n \in Events : (call[n].pc = "sending") ~> (call[n].pc # "sending")

\* the counts with connection c left out
CountWithout(c) == Cardinality(connections \ {c})

ChannelCountWithout(ch, c) ==
    Len(SelectSeq(channel_index[ch], LAMBDA x : x # c))

\* a finished cleanup_dead_connections run has removed what its scan collected
SweepRemovedDead ==
    /\ \A c \in sweep.dead : receiver[c] = "dropped"
    /\ sweep.pc = "idle" =>
           \A c \in sweep.dead :
               /\ connection_count = CountWithout(c)
               /\ \A ch \in Channels :
                      channel_connection_count(ch) = ChannelCountWithout(ch, c)

\* a run's scan collects every registered connection whose receiver is
\* dropped, and a step of the sweeper removes no connection whose receiver is
\* held, from the map or from an id list
SweepStep ==
    /\ (sweep.pc = "idle" /\ sweep'.pc # "idle") =>
           \A c \in Conns :
               (Registered(c, channel_id[c]) /\ receiver[c] = "dropped")
                   => c \in sweep'.dead
    /\ sweep' # sweep =>
           \A c \in Conns :
               receiver[c] = "held" =>
                   /\ c \in connections => c \in connections'
                   /\ \A ch \in Channels :
                          c \in Range(channel_index[ch])
                              => c \in Range(channel_index'[ch])

Generated(n) ==
    call[n].kind = "channel" /\ call[n].pc \notin {"idle", "spawned", "stamped"}

\* C16: of any two stream ids one store has produced, the one produced by the
\* later call (the call that drew the later sequence number) compares
\* strictly greater on (timestamp, sequence).
StreamIdMonotonic ==
    \A n, m \in Events :
        (/\ Generated(n) /\ Generated(m)
         /\ call[n].stream_id[2] < call[m].stream_id[2])
        => IdLess(call[n].stream_id, call[m].stream_id)

\* the id of the k-th entry of ch's log
EntryId(ch, k) == call[stream[ch][k]].stream_id

\* the log of ch holds its entries in strictly increasing id order
LogAscending(ch) ==
    \A i, j \in 1..Len(stream[ch]) : i < j => IdLess(EntryId(ch, i), EntryId(ch, j))

\* C17: replay exclusivity. For a channel whose log holds entries with ids
\* id1 < ... < idn, get_messages_after(ch, id_k) returns exactly the entries
\* k+1 .. n in that order, for every k in 1..n (nothing for k = n).
ReplayExclusivity ==
    \A ch \in Channels :
        LogAscending(ch) =>
            \A k \in 1..Len(stream[ch]) :
                MemoryGetMessagesAfter(ch, EntryId(ch, k))
                    = SubSeq(stream[ch], k + 1, Len(stream[ch]))

\* a subscriber presented the id of the first of two stored entries and was
\* handed the second one alone; a subscriber that presented the id of the
\* last entry was handed nothing
ReplayExclusivityWitness ==
    /\ Len(stream["a"]) = 2
    /\ LogAscending("a")
    /\ \A n \in Events : call[n].pc = "done"
    /\ \E c, d \in Conns :
          /\ pc[c] = "streaming" /\ pc[d] = "streaming"
          /\ last_event_id[c] = EntryId("a", 1)
          /\ replay[c] = <<stream["a"][2]>>
          /\ replay[c] = MemoryGetMessagesAfter("a", last_event_id[c])
          /\ last_event_id[d] = EntryId("a", 2)
          /\ replay[d] = <<>>

\* cursors of the form <unsigned>-<unsigned>
WellFormedCursors == {x \in Cursors : x # NoId /\ is_valid_stream_id(x)}

\* the entries of ch's log whose id is strictly greater than x, in log order
EntriesAfter(ch, x) == SelectSeq(stream[ch], LAMBDA n : IdLess(x, call[n].stream_id))

\* C18: for a well-formed cursor x, get_messages_after(ch, x) returns every
\* stored entry of ch whose id is strictly greater than x, in ascending id
\* order and at most max_per_channel of them, also when x is not (or no
\* longer) an entry of the log. Stated for the in-memory store, on logs whose
\* ids are ascending.
ReplayAfterCursor ==
    \A ch \in Channels, x \in WellFormedCursors :
        LogAscending(ch) =>
            LET r == MemoryGetMessagesAfter(ch, x) IN
            /\ Len(r) <= max_per_channel
            /\ Len(EntriesAfter(ch, x)) <= max_per_channel => r = EntriesAfter(ch, x)

\* cursor x equals the id of no entry currently stored for ch
MatchesNoEntry(ch, x) == \A k \in 1..Len(stream[ch]) : EntryId(ch, k) # x

\* C19: MemoryStorage.get_messages_after(ch, after_id) returns an empty list
\* whenever after_id is None or equals the id of no entry currently stored
\* for ch, malformed ("non-existent") or well-formed ("0-0") alike, even when
\* the channel holds entries.
UnknownCursorEmpty ==
    \A ch \in Channels, x \in Cursors :
        (x = NoId \/ MatchesNoEntry(ch, x)) => MemoryGetMessagesAfter(ch, x) = <<>>

\* the channel holds entries; one subscriber presented "0-0" and another
\* "non-existent", neither names an entry, and both were handed nothing
UnknownCursorEmptyWitness ==
    /\ stream["a"] # <<>>
    /\ \E c, d \in Conns :
          /\ pc[c] = "streaming" /\ pc[d] = "streaming"
          /\ last_event_id[c] = <<0, 0>>
          /\ last_event_id[d] = <<NotNumeric, NotNumeric>>
          /\ MatchesNoEntry("a", last_event_id[c])
          /\ MatchesNoEntry("a", last_event_id[d])
          /\ replay[c] = <<>> /\ replay[d] = <<>>
          /\ MemoryGetMessagesAfter("a", last_event_id[c]) = replay[c]
          /\ MemoryGetMessagesAfter("a", last_event_id[d]) = replay[d]

\* C20: a subscriber that connects with a Last-Event-ID that is not of the
\* form <unsigned>-<unsigned> gets an empty backlog and stays registered, and
\* the events dispatched to its channel afterwards are delivered to it in
\* realtime: each is enqueued to it, and its stream emits its queue in order
\* and can always emit the head of a non-empty queue.
MalformedLastEventId ==
    \A c \in Conns :
        (last_event_id[c] \in MalformedCursors /\ pc[c] = "streaming") =>
            /\ replay[c] = <<>>
            /\ Registered(c, channel_id[c]) /\ is_active(c)
            /\ \A n \in Events :
                   (Dispatched(n) /\ c \in call[n].start_set) => n \in Range(enq[c])
            /\ out[c] = [i \in 1..Len(out[c]) |-> <<"event", enq[c][i]>>]
            /\ queue[c] # <<>> => ENABLED EmitEvent(c)

\* event 1 was dispatched and stored before the subscriber registered with
\* its malformed cursor: it is not replayed to it; event 2, dispatched
\* afterwards, is the one thing its stream has emitted
MalformedLastEventIdWitness ==
    \E c \in Conns :
        /\ last_event_id[c] \in MalformedCursors
        /\ pc[c] = "streaming"
        /\ 1 \in Range(stream["a"])
        /\ 1 \notin Range(enq[c])
        /\ replay[c] = <<>>
        /\ out[c] = <<<<"event", 2>>>>

\* a store call on ch is between its entry and its return
StoreInProgress(ch) ==
    \E n \in Events :
        call[n].kind = "store" /\ call[n].ch = ch /\ call[n].pc # "done"

\* the last k elements of s (all of s when it has fewer)
LastOf(s, k) == IF Len(s) > k THEN SubSeq(s, Len(s) - k + 1, Len(s)) ELSE s

\* C21: replay cap. After any sequence of store calls on a channel of an
\* in-memory store with capacity N, once no store call is in progress the
\* channel's log holds at most N entries, and they are exactly the N most
\* recently inserted ones in insertion order.
ReplayCap ==
    \A ch \in Channels :
        ~StoreInProgress(ch) =>
            /\ Len(stream[ch]) <= max_per_channel
            /\ stream[ch] = LastOf(pushed[ch], max_per_channel)

\* two entries were inserted into a log of capacity 1: the second is kept
ReplayCapWitness ==
    /\ max_per_channel = 1
    /\ ~StoreInProgress("a")
    /\ Len(pushed["a"]) = 2
    /\ stream["a"] = <<pushed["a"][2]>>

\* C22: in every channel's replay log the entries are in strictly increasing
\* stream_id order, also when several store operations for the same channel
\* run concurrently.
LogOrder == \A ch \in Channels : LogAscending(ch)

\* nothing of the registry, the hooks or the replay knows a denied request
DeniedLeftNoTrace ==
    \A c \in Conns :
        pc[c] = "denied" =>
            /\ c \notin connections
            /\ \A ch \in Channels : c \notin Range(channel_index[ch])
            /\ receiver[c] = "none"
            /\ hooks[c].connect = 0
            /\ replay[c] = <<>>
            /\ enq[c] = <<>> /\ out[c] = <<>>

\* the step that denies a request changes neither the registry nor the hooks
DeniedStep ==
    (\E c \in Conns : pc[c] # "denied" /\ pc'[c] = "denied") =>
        /\ UNCHANGED regVars
        /\ UNCHANGED <<hooks, replay>>

\* C23: when the auth hook denies a subscribe request, the hook's response is
\* returned and nothing else happens: no connection is registered,
\* on_connect is not fired, no replay is fetched, and the registry is left
\* unchanged.
AuthDenyNoEffect == [](DeniedLeftNoTrace) /\ [][DeniedStep]_vars

\* a request was denied that presented a cursor with stored entries after
\* it, while another subscriber of the channel is registered and streaming
AuthDenyNoEffectWitness ==
    \E c, d \in Conns :
        /\ pc[c] = "denied"
        /\ last_event_id[c] # NoId
        /\ get_messages_after("a", last_event_id[c], TRUE) # <<>>
        /\ replay[c] = <<>>
        /\ pc[d] = "streaming"
        /\ connections = {d}
        /\ channel_index["a"] = <<d>>

\* the timestamps of the heartbeat events a stream has emitted
EmittedBeats(c) == {o[2] : o \in {x \in Range(out[c]) : x[1] = "heartbeat"}}

\* a request without a stream has no subscription: nothing is pending for it
\* and it has emitted no heartbeat
NoBeatBeforeSubscription ==
    \A c \in Conns :
        pc[c] # "streaming" => hbq[c] = <<>> /\ EmittedBeats(c) = {}

\* a published tick is queued, with the publisher's timestamp, for exactly
\* the subscriptions that exist when it is published
BeatStep ==
    beats' # beats =>
        \A c \in Conns :
            hbq'[c] = IF pc[c] = "streaming" THEN Append(hbq[c], clock) ELSE <<>>

\* C24: heartbeat liveness. After send_heartbeat publishes a tick, every
\* stream whose heartbeat subscription was created before the tick and which
\* is not lagging emits a heartbeat event carrying that tick's timestamp; a
\* subscription created after the tick does not observe it.
HeartbeatLiveness ==
    /\ [](NoBeatBeforeSubscription)
    /\ [][BeatStep]_vars
    /\ \A c \in Conns, ts \in 1..MaxClock :
           (ts \in Range(hbq[c])) ~> (ts \in EmittedBeats(c))

\* the tick was published and the stream subscribed before it has emitted
\* it, while a stream assembled after it has nothing to emit
HeartbeatLivenessWitness ==
    \E c, d \in Conns :
        /\ beats = 1
        /\ pc[c] = "streaming" /\ pc[d] = "streaming"
        /\ EmittedBeats(c) # {}
        /\ EmittedBeats(d) = {} /\ hbq[d] = <<>>

\* the command a step has just run, if it ran an unregister_channel
RanUnregister ==
    /\ Len(reg_log') = Len(reg_log) + 1
    /\ reg_log'[Len(reg_log')].op = "del"

\* an unregister_channel(ch) by instance i removes the binding of ch when
\* the value read by the script is i and changes nothing otherwise
CompareAndDeleteStep ==
    RanUnregister =>
        LET e == reg_log'[Len(reg_log')]
        IN  /\ binding[e.ch] = e.inst =>
                binding' = [binding EXCEPT ![e.ch] = NoInstance]
            /\ binding[e.ch] # e.inst => binding' = binding

\* C25: compare-and-delete. unregister_channel(ch) called by an instance
\* removes the binding of ch only if, at the atomic moment of the check, the
\* binding's value equals that instance; starting from ch -> A with A another
\* instance the binding is unchanged, under every interleaving with
\* register_channel calls of A.
CompareAndDelete == [][CompareAndDeleteStep]_vars

\* the other instance has just run unregister_channel(ch) on a binding that
\* this instance had set, and the binding is still there
CompareAndDeleteWitness ==
    /\ reg_log # <<>>
    /\ LET e == reg_log[Len(reg_log)]
       IN  /\ e.op = "del" /\ e.inst = OtherInstance
           /\ binding[e.ch] = ThisInstance
           /\ \E i \in 1..Len(reg_log) :
                  /\ reg_log[i].op = "set" /\ reg_log[i].inst = ThisInstance
                  /\ reg_log[i].ch = e.ch

\* a connection on ch is registered on this instance and not yet dropped
LiveOn(ch) ==
    \E c \in Conns :
        channel_id[c] = ch /\ pc[c] \in {"registered", "streaming"}

\* C26: while a connection on channel ch stays live on this instance and no
\* other instance claims ch, the binding of ch to this instance is eventually
\* present again whenever it is absent, also after the binding's TTL lapses
\* or another connection on the same channel and instance disconnects.
BindingRestored ==
    \A ch \in Channels :
        (LiveOn(ch) /\ binding[ch] = NoInstance)
            ~> (binding[ch] = ThisInstance \/ ~LiveOn(ch))

IsPrefix(p, s) == Len(p) <= Len(s) /\ SubSeq(s, 1, Len(p)) = p

\* the handler has been called with a prefix of what was sent, what is not
\* yet handled is in the channel, and start has returned only on
\* cancellation or with every sender dropped
SourceHandledInOrder ==
    /\ IsPrefix(source.handled, source.sent)
    /\ source.pc # "stopped" =>
           source.handled \o source.inbox = source.sent
    /\ source.pc = "stopped" =>
           /\ source.result = "Ok"
           /\ source.cancelled \/ source.senders = 0
    /\ (source.pc = "stopped" /\ ~source.cancelled) =>
           source.handled = source.sent

\* C27 (as amended): ChannelSource.start invokes the handler at most once
\* per message sent, in send order and without gaps; every message sent is
\* handled when start returns because every sender was dropped; start returns
\* Ok once the token is cancelled or every sender is dropped, and does not
\* hang in either case.
ChannelSourceContract ==
    /\ [](SourceHandledInOrder)
    /\ (source.senders = 0) ~> (source.pc = "stopped")
    /\ (source.cancelled) ~> (source.pc = "stopped")

\* C27 (as stated): when start has returned, the handler has been invoked
\* exactly once for each message sent on the sender, in send order.
SourceHandlesEverySent ==
    source.pc = "stopped" => source.handled = source.sent

\* start returned after the last sender was dropped, having handled two
\* different messages in the order they were sent
ChannelSourceContractWitness ==
    /\ source.pc = "stopped" /\ ~source.cancelled /\ source.senders = 0
    /\ source.handled = <<"x", "y">>
    /\ source.sent = <<"x", "y">>

\* call n is suspended enqueuing to the full queue of c
SuspendedOn(n, c) == call[n].waiting /\ call[n].target = c

\* C28: if a subscriber's stream is dropped while a send_to_channel call is
\* suspended enqueuing to that subscriber's full queue, neither blocks the
\* other forever: the drop's unregister completes and the suspended send
\* returns.
DropReleasesSend ==
    \A c \in Conns, n \in Events :
        (pc[c] = "unreg_remove" /\ SuspendedOn(n, c))
            ~> (pc[c] = "closed" /\ ~SuspendedOn(n, c))

\* the events the stream of c has emitted, replayed or live
Received(c) == {o[2] : o \in {x \in Range(out[c]) : x[1] # "heartbeat"}}

\* nothing is still on its way to c: every dispatch has returned, the batcher
\* has flushed every store request, and the stream has emitted its replay and
\* drained its queue
Settled(c) ==
    /\ \A n \in Events : call[n].pc \in {"idle", "done"}
    /\ store_tx = <<>> /\ batch = <<>>
    /\ replay_pos[c] = Len(replay[c]) /\ queue[c] = <<>>

\* C29: no loss across reconnect. With the store available and fewer than N
\* newer events, a subscriber that connects with Last-Event-ID L receives
\* every event of its channel with stream_id greater than L that is
\* dispatched before it disconnects, in the replay prefix or in the realtime
\* suffix, under every interleaving of its register and replay fetch with the
\* dispatcher's fan-out and background store.
NoLossAcrossReconnect ==
    \A c \in Conns, n \in Events :
        (/\ pc[c] = "streaming" /\ Settled(c)
         /\ is_valid_stream_id(last_event_id[c])
         /\ Dispatched(n) /\ call[n].ch = channel_id[c]
         /\ IdLess(last_event_id[c], call[n].stream_id))
        => n \in Received(c)

\* register(ch) has returned for c, its stream has not been dropped, and no
\* unregister of another connection of ch is mid-way
RegisteredAndCalm(c) ==
    /\ pc[c] \in {"registered", "streaming"}
    /\ \A d \in Conns :
           channel_id[d] = channel_id[c] =>
               pc[d] \notin {"unreg_remove", "unreg_index", "unreg_prune"}

\* C30: in the registry that prunes empty channel entries on unregister, a
\* register(ch) running concurrently with the unregister of the last other
\* connection on ch never loses the new connection from the channel index:
\* after both calls finish the new connection is in the connections map and
\* in ch's list, and the snapshot of a subsequent send_to_channel(ch, e)
\* holds it.
RegisterSurvivesPrune ==
    \A c \in Conns :
        RegisteredAndCalm(c) =>
            /\ c \in connections
            /\ c \in Range(channel_index[channel_id[c]])
            /\ c \in Range(SnapshotIds(channel_id[c]))

\* the subscribe request of c is over: abandoned, or its stream dropped
RequestOver(c) == pc[c] \in {"abandoned", "unreg_remove", "unreg_index", "closed"}

\* C31: every on_connect hook invocation for a connection is eventually
\* followed by exactly one on_disconnect invocation for the same connection,
\* also when the subscribe request is abandoned while the replay fetch is
\* still awaiting, after register and on_connect have run but before the
\* stream carrying the drop-cleanup exists.
ConnectHookPaired ==
    /\ [](\A c \in Conns : hooks[c].disconnect <= 1)
    /\ \A c \in Conns :
           (hooks[c].connect > 0 /\ RequestOver(c)) ~> (hooks[c].disconnect = 1)

\* messages submitted through POST /push for ch
Pushes(ch) == {n \in Events : call[n].kind = "push" /\ call[n].ch = ch}

\* C32: a message submitted once through POST /push for a channel produces
\* at most one entry in that channel's replay log.
PushStoredOnce ==
    \A ch \in Channels : Len(stream[ch]) <= Cardinality(Pushes(ch))

\* the store requests on their way and the entries written
StoreEntries == store_tx \o batch \o stream["a"] \o stream["b"]

\* a store request exists only for a channel message whose fan-out has
\* returned, once, and every event fanned out for a channel carries an id
StoredAfterFanOut ==
    /\ \A n \in Events :
           /\ Count(StoreEntries, n) <= 1
           /\ n \in Range(StoreEntries) =>
                  /\ call[n].kind = "channel" /\ call[n].pc = "done"
                  /\ is_valid_stream_id(call[n].stream_id)
    /\ \A n \in Events, c \in Conns :
           (n \in Range(enq[c]) /\ call[n].kind = "channel") =>
               is_valid_stream_id(call[n].stream_id)

\* the id generated for a message stays; the store request is issued by the
\* step that follows the return of the fan-out, for the same message
DispatchStep ==
    /\ \A n \in Events :
           /\ Generated(n) => call'[n].stream_id = call[n].stream_id
           /\ (call[n].pc = "returned" /\ call'[n].pc # "returned") =>
                  call'[n].pc = "done" /\ store_tx' = Append(store_tx, n)
    /\ Len(store_tx') > Len(store_tx) =>
           \E n \in Events : call[n].pc = "returned" /\ call'[n].pc = "done"

\* C33: for each ingested message that names a channel the dispatcher
\* generates one stream_id, fans the event out carrying that stream_id, and
\* only afterwards issues exactly one store request for that channel with the
\* same stream_id, whether or not any subscriber received it; for a message
\* without a channel it broadcasts and issues no store request.
DispatchThenStore ==
    /\ [](StoredAfterFanOut)
    /\ [][DispatchStep]_vars
    /\ \A n \in Events : (call[n].pc = "returned") ~> (call[n].pc = "done")

\* a channel message nobody received has its entry in the stream, and a
\* broadcast that reached a subscriber has none
DispatchThenStoreWitness ==
    \E n, m \in Events :
        /\ call[n].kind = "channel" /\ call[n].sent = 0
        /\ n \in Range(stream["a"])
        /\ call[m].kind = "broadcast" /\ call[m].pc = "done" /\ call[m].sent > 0
        /\ m \notin Range(StoreEntries)

\* C34: when the batcher's input channel closes (shutdown), the store
\* requests still held in its in-memory batch are flushed once before the
\* batch task exits; none of them is silently discarded.
BatchFlushedOnClose == background.batcher = "exited" => batch = <<>>

\* a request is in at most one pipeline, and once in a pipeline it is no
\* longer held by the batcher; the batch stays below its flush size
FlushedOnce ==
    /\ \A n \in Events :
           /\ background.submitted[n] <= 1
           /\ background.submitted[n] = 1 =>
                  n \notin Range(store_tx) /\ n \notin Range(batch)
    /\ Len(batch) < SmallBatch

\* a flush attempt empties the batch whatever its outcome, and writes either
\* nothing or the whole pipeline
FlushStep ==
    background'.submitted # background.submitted =>
        /\ batch' = <<>>
        /\ \/ stream' = stream
           \/ stream' = Pipeline(stream, batch)
           \/ /\ store_tx # <<>>
              /\ stream' = Pipeline(stream, Append(batch, Head(store_tx)))

\* C35: each store request accepted by the batcher is included in at most
\* one pipeline submitted to the remote store: after a flush attempt, whether
\* it succeeds, fails or times out, the in-memory batch is empty and none of
\* its requests is retried; the batch never holds more than the batch size.
BatchAtMostOnce == [](FlushedOnce) /\ [][FlushStep]_vars

\* a pipeline has failed: its request is gone from the batcher and from the
\* stream; and a full batch has been flushed by the receive branch
BatchAtMostOnceWitness ==
    \E n, m \in Events :
        /\ n # m
        /\ background.submitted[n] = 1 /\ background.submitted[m] = 1
        /\ n \notin Range(stream["a"]) /\ m \in Range(stream["a"])
        /\ batch = <<>> /\ store_tx = <<>>

\* the spawned task of event n is about to call RedisStorage::store
AtStore(n) == call[n].pc = "returned"

\* store returns in one step: the request is appended when the channel has
\* room, and the channel is left as it was when it is full
StoreStep ==
    \A n \in Events :
        (AtStore(n) /\ call'[n].pc = "done") =>
            store_tx' = IF Len(store_tx) < SmallCapacity
                        THEN Append(store_tx, n) ELSE store_tx

\* C36: RedisStorage.store never waits: when the internal request channel is
\* full the new request is discarded, the requests already queued are
\* unchanged, and the caller continues immediately.
StoreNeverWaits ==
    /\ [](\A n \in Events : AtStore(n) => ENABLED StoreRequestOf(n, SmallCapacity))
    /\ [](Len(store_tx) <= SmallCapacity)
    /\ [][StoreStep]_vars

\* a store call has returned while the channel was full of another request:
\* its own request is nowhere, the queued one is still there
StoreNeverWaitsWitness ==
    \E n, m \in Events :
        /\ n # m
        /\ call[n].pc = "done" /\ call[m].pc = "done"
        /\ store_tx = <<m>> /\ batch = <<>>
        /\ background.submitted[n] = 0
        /\ n \notin Range(stream["a"])

\* the request of event n was dropped: its task is over and the request is
\* neither queued, nor batched, nor in the stream
Discarded(n) ==
    /\ call[n].kind = "channel" /\ call[n].pc = "done"
    /\ n \notin Range(StoreEntries)

\* while the store is not connected nothing is written or sent to the server
\* and a replay fetch returns nothing; a discarded request stays discarded
OfflineStep ==
    /\ ~redis =>
          /\ stream' = stream
          /\ background'.submitted = background.submitted
          /\ \A c \in Conns :
                 (pc[c] = "registered" /\ pc'[c] = "streaming") => replay'[c] = <<>>
    /\ \A n \in Events : Discarded(n) => Discarded(n)'

\* C37: while the remote store is not connected, send_to_channel still
\* delivers to subscribers, get_messages_after returns empty, and store
\* requests reaching a flush are discarded without effect; a request discarded
\* this way is never written later, even after connect succeeds.
OfflinePolicy ==
    /\ [](\A n \in Events, c \in Conns :
              Dispatched(n) /\ RegisteredThroughout(c, n) => n \in Range(enq[c]))
    /\ [][OfflineStep]_vars

\* a subscriber presented a cursor older than the entry the server holds and
\* was given no replay; a message was delivered to it and its request was
\* discarded by a flush; the store is connected now and the stream still
\* holds the earlier entry alone
OfflinePolicyWitness ==
    \E n \in Events, c \in Conns :
        /\ redis
        /\ Discarded(n) /\ background.submitted[n] = 0
        /\ <<"event", n>> \in Range(out[c])
        /\ last_event_id[c] = <<0, 0>> /\ replay[c] = <<>>
        /\ stream["a"] = <<EarlierEntry>>

\* c is the only connection that was ever on its channel, and both registry
\* tasks spawned for it have run their command
SoleAndSettled(c) ==
    /\ HasRun("set", c) /\ HasRun("del", c)
    /\ \A d \in Conns \ {c} : channel_id[d] # channel_id[c]

\* C38: for a connection that connects and then disconnects on instance A
\* with no other subscriber on its channel, the binding ch -> A ends up absent
\* without waiting for the TTL: the SET issued by on_connect is never applied
\* after the compare-and-delete issued by on_disconnect.
BindingGoneAfterDisconnect ==
    \A c \in Conns : SoleAndSettled(c) => binding[channel_id[c]] = NoInstance

\* a stream-id generation has returned to caller n
HasId(n) ==
    /\ call[n].kind \in {"channel", "push", "store"}
    /\ call[n].pc \notin {"idle", "spawned", "stamped"}

\* C39: no two stream-id generations on the same store ever return the same
\* stream_id, under every interleaving of concurrent callers and for every
\* clock reading, including a clock that stands still or steps backwards.
StreamIdUnique ==
    \A n, m \in Events :
        (n # m /\ HasId(n) /\ HasId(m)) => call[n].stream_id # call[m].stream_id

\* two ids with the same timestamp, and two ids of which the later drawn has
\* the earlier timestamp
StreamIdUniqueWitness ==
    /\ \E n, m \in Events :
          /\ n # m /\ HasId(n) /\ HasId(m)
          /\ call[n].stream_id[1] = call[m].stream_id[1]
    /\ clock = 1
    /\ \E n \in Events : HasId(n) /\ call[n].stream_id[1] = 2

\* an exited loop stays exited and does nothing more: no heartbeat is
\* published once the ticker is gone, no sweep step is taken once the
\* sweeper is gone
ExitedStep ==
    /\ background.ticker = "exited" =>
           /\ background'.ticker = "exited"
           /\ beats' = beats
           /\ \A c \in Conns : Len(hbq'[c]) <= Len(hbq[c])
    /\ background.sweeper = "exited" =>
           /\ background'.sweeper = "exited"
           /\ sweep' = sweep

\* C40: after the process-wide cancellation signal fires, the heartbeat
\* ticker loop and the dead-connection sweeper loop each terminate; no
\* heartbeat is published and no sweep is run by them after they have exited.
CancelStopsLoops ==
    /\ background.cancel ~>
           (background.ticker = "exited" /\ background.sweeper = "exited")
    /\ [](background.sweeper = "exited" => sweep.pc = "idle")
    /\ [][ExitedStep]_vars

====
